---- MODULE Spec2Model ----
(***************************************************************************)
(* PDR binary encoding and indexing: src/code/new_script.py                *)
(* (pack_field, build_blob_and_index), src/code/gen_script.py              *)
(* (generate_binary_data) and src/script/code.py (pack_string,             *)
(* generate_c_array).                                                      *)
(***************************************************************************)
EXTENDS Integers, Sequences, FiniteSets, TLC

VARIABLES
    \* build_blob_and_index (new_script.py)
    records,      \* the argument: a list of (rec, base, idx) tuples
    blob,         \* local bytearray
    index,        \* local list of (record_handle, offset)
    offsets,      \* local list of (base, idx, pdr_type, offset)
    pos,          \* number of records the for loop has consumed
    pc,           \* "loop" | "returned" | "raised" | "header" | "idle"
    exc,          \* the exception raised, "none" when none
    ret,          \* the value handed to the caller, None until return
    header,       \* what generate_header wrote, None until it has run
    c_struct,     \* layout of the hand-written C structs the macros cast to
    \* pack_field / integer branches of generate_binary_data
    pf_value, pf_ftype, pf_result, gbd_result, pf_pc,
    \* pack_string (code.py)
    ps_value,        \* the argument value: a str or None
    ps_string_type,  \* the argument string_type
    ps_result,       \* what the call gave: exception or bytes, and stderr
    ps_pc,           \* "call" | "done" | "idle"
    \* generate_c_array (code.py)
    gca_schema,      \* the loaded JSON schema: binaryOrder and properties
    plain_data,      \* the YAML data after comment stripping and defaults
    gca_i,           \* i, the position of the while loop in binary_order
    data_format,     \* the struct format text built so far, by character
    data_values,     \* the values collected so far
    gca_pc,          \* "fields" | "pack" | "returned" | "raised" | "idle"
    gca_exc,         \* the exception raised, "none" when none
    gca_ret,         \* the returned value, None until return
    gca_stderr,      \* what pack_string printed to stderr during the call
    \* two calls of build_blob_and_index in one process (new_script.py)
    inv,             \* per call: its argument, locals, position and result
    field_types,     \* the module global FIELD_TYPES as the process holds it
    \* gen_script.py: main and the functions it calls
    yaml_data,       \* load_yaml_files: pdr_type -> field types
    pdr_data_list,   \* load_json_files: per file, the name entry and records
    c_refs,          \* GET_PDR_FIELD_VALUE definitions found in the C files
    ref_pos,         \* how many of them process_c_files has handled
    macros,          \* the macro lines collected
    binary_data,     \* generate_output's bytearray
    gen_file,        \* generate_output: files of pdr_data_list consumed
    gen_rec,         \* generate_output: entries of the current file consumed
    gen_skipped,     \* records that took a `continue` in generate_output
    gen_pc,          \* "macros" | "output" | "write" | "done" | "raised" | "idle"
    gen_exc,         \* the exception raised, "none" when none
    gen_out,         \* the files generate_output wrote, None until then
    \* object.py: main
    objects,         \* data.get('pldm_objects', [])
    obj_pos,         \* objects the validation loop has consumed
    ids,             \* the set of ids seen
    obj_pc,          \* "start" | "validate" | "write" | "exited" | "raised" | "idle"
    obj_exit,        \* the message given to sys.exit, <<>> when none
    output_c         \* the output file: whether it exists, the lines in it

buildVars == <<records, blob, index, offsets, pos, pc, exc, ret, header,
               c_struct>>
packVars  == <<pf_value, pf_ftype, pf_result, gbd_result, pf_pc>>
strVars   == <<ps_value, ps_string_type, ps_result, ps_pc>>
arrVars   == <<gca_schema, plain_data, gca_i, data_format, data_values, gca_pc,
               gca_exc, gca_ret, gca_stderr>>
pairVars  == <<inv, field_types>>
genVars   == <<yaml_data, pdr_data_list, c_refs, ref_pos, macros, binary_data,
               gen_file, gen_rec, gen_skipped, gen_pc, gen_exc, gen_out>>
objVars   == <<objects, obj_pos, ids, obj_pc, obj_exit, output_c>>
vars == <<buildVars, packVars, strVars, arrVars, pairVars, genVars, objVars>>

-----------------------------------------------------------------------------
(* Python values.  An int is kept as two limbs, value = hi * 65536 + lo     *)
(* with lo in 0..65535, so that 32-bit range checks need no number beyond   *)
(* the checker's integers.  A str is its sequence of code points; a tag is  *)
(* a str that is only ever compared (dictionary keys, type names).          *)

Limb == 256 * 256

PyInt2(h, l) == [t |-> "int", hi |-> h, lo |-> l, s |-> <<>>, tag |-> ""]
PyInt(n)     == PyInt2(n \div Limb, n % Limb)
PyStr(cps)   == [t |-> "str", hi |-> 0, lo |-> 0, s |-> cps, tag |-> ""]
PyTag(name)  == [t |-> "tag", hi |-> 0, lo |-> 0, s |-> <<>>, tag |-> name]
PyNone       == [t |-> "none", hi |-> 0, lo |-> 0, s |-> <<>>, tag |-> ""]
\* A non-negative float: its integer part n and the digits of its fraction.
PyFloat(n, frac) ==
    [t |-> "float", hi |-> n \div Limb, lo |-> n % Limb, s |-> frac, tag |-> ""]

Ok(bytes)  == [exc |-> "none", bytes |-> bytes]
Err(name)  == [exc |-> name,   bytes |-> <<>>]

RECURSIVE Flatten(_)
Flatten(seqs) ==
    IF seqs = <<>> THEN <<>> ELSE Head(seqs) \o Flatten(Tail(seqs))

RECURSIVE SumSeq(_)
SumSeq(ns) == IF ns = <<>> THEN 0 ELSE Head(ns) + SumSeq(Tail(ns))

Reverse(sq) == [i \in 1..Len(sq) |-> sq[Len(sq) + 1 - i]]

-----------------------------------------------------------------------------
(* int.to_bytes(length, 'little', signed=...)                               *)

Pow256(n) == IF n = 1 THEN 256 ELSE Limb

\* Does the value fit `length` bytes?  OverflowError otherwise.
FitsUnsigned(v, length) ==
    IF length = 4 THEN v.hi >= 0 /\ v.hi < Limb
    ELSE v.hi = 0 /\ v.lo < Pow256(length)

FitsSigned(v, length) ==
    IF length = 4 THEN v.hi >= -(Limb \div 2) /\ v.hi < (Limb \div 2)
    ELSE \/ v.hi = 0  /\ v.lo < (Pow256(length) \div 2)
         \/ v.hi = -1 /\ v.lo >= Limb - (Pow256(length) \div 2)

\* The low `length` bytes of the two's complement of the value, low byte first.
LittleEndian(v, length) ==
    LET h == v.hi % Limb
        all == <<v.lo % 256, v.lo \div 256, h % 256, h \div 256>>
    IN  SubSeq(all, 1, length)

\* The low bytes of the value whatever its size.
to_bytes_wrapping(v, length, signed) == Ok(LittleEndian(v, length))
to_bytes(v, length, signed) ==
    IF (IF signed THEN FitsSigned(v, length) ELSE FitsUnsigned(v, length))
    THEN Ok(LittleEndian(v, length))
    ELSE Err("OverflowError")

-----------------------------------------------------------------------------
(* str.encode('utf-8') and str()                                            *)

Utf8Char(cp) ==
    IF cp < 128 THEN <<cp>>
    ELSE IF cp < 2048 THEN <<192 + (cp \div 64), 128 + (cp % 64)>>
    ELSE IF cp < 65536
         THEN <<224 + (cp \div 4096), 128 + ((cp \div 64) % 64), 128 + (cp % 64)>>
    ELSE <<240 + (cp \div 262144), 128 + ((cp \div 4096) % 64),
           128 + ((cp \div 64) % 64), 128 + (cp % 64)>>

IsSurrogate(cp) == cp >= 55296 /\ cp <= 57343

\* The characters' encodings in order (the string is split in halves to
\* keep the recursion shallow).
RECURSIVE Utf8Bytes(_)
Utf8Bytes(cps) ==
    IF cps = <<>> THEN <<>>
    ELSE IF Len(cps) = 1 THEN Utf8Char(cps[1])
    ELSE LET m == Len(cps) \div 2
         IN  Utf8Bytes(SubSeq(cps, 1, m)) \o Utf8Bytes(SubSeq(cps, m + 1, Len(cps)))

encode_utf8(cps) ==
    IF \E i \in 1..Len(cps) : IsSurrogate(cps[i])
    THEN Err("UnicodeEncodeError")
    ELSE Ok(Utf8Bytes(cps))

\* The decimal digits of the non-negative int hi * 65536 + lo, by long
\* division of the limbs by ten.
RECURSIVE Decimal(_, _)
Decimal(h, l) ==
    LET low == (h % 10) * Limb + l
        digit == <<48 + (low % 10)>>
    IN  IF h = 0 /\ l < 10 THEN digit
        ELSE Decimal(h \div 10, low \div 10) \o digit

\* str(value): the code points of the value's text.
PyStrOf(v) ==
    CASE v.t = "str"  -> v.s
      [] v.t = "int"  ->
            IF v.hi >= 0 THEN Decimal(v.hi, v.lo)
            ELSE <<45>> \o (IF v.lo = 0 THEN Decimal(-v.hi, 0)
                            ELSE Decimal(-v.hi - 1, Limb - v.lo))
      [] v.t = "none" -> <<78, 111, 110, 101>>
      [] v.t = "float" ->
            Decimal(v.hi, v.lo) \o <<46>> \o [i \in 1..Len(v.s) |-> 48 + v.s[i]]
      [] OTHER        -> <<>>

-----------------------------------------------------------------------------
(* new_script.py                                                            *)

FIELD_TYPES ==
    [p \in {"CompactNumericSensorPDR"} |->
      << <<"recordHandle",               "uint32">>,
         <<"PDRHeaderVersion",           "uint8">>,
         <<"PDRType",                    "uint8">>,
         <<"recordChangeNumber",         "uint8">>,
         <<"dataLength",                 "uint16">>,
         <<"PLDMTerminusHandle",         "uint8">>,
         <<"sensorID",                   "uint16">>,
         <<"entityType",                 "uint16">>,
         <<"entityInstanceNumber",       "uint16">>,
         <<"containerID",                "uint16">>,
         <<"sensorNameStringByteLength", "uint16">>,
         <<"baseUnit",                   "uint16">>,
         <<"unitModifier",               "uint16">>,
         <<"occurrenceRate",             "uint8">>,
         <<"rangeFieldSupport",          "uint8">>,
         <<"warningHigh",                "uint8">>,
         <<"warningLow",                 "uint8">>,
         <<"criticalHigh",               "uint8">>,
         <<"criticalLow",                "uint8">>,
         <<"fatalHigh",                  "uint8">>,
         <<"fatalLow",                   "uint8">>,
         <<"sensorNameString",           "strUTF8">> >>]

\* A dict is the sequence of its (key, value) items in insertion order.
HasKey(d, key) == \E i \in 1..Len(d) : d[i][1] = key
DictItem(d, key) == d[CHOOSE i \in 1..Len(d) : d[i][1] = key][2]
DictGet(d, key) == IF HasKey(d, key) THEN DictItem(d, key) ELSE PyNone

\* The int a text of decimal digits stands for (texts of at most 9 digits).
RECURSIVE ParseDigits(_)
ParseDigits(cps) ==
    IF cps = <<>> THEN 0
    ELSE 10 * ParseDigits(SubSeq(cps, 1, Len(cps) - 1)) + (cps[Len(cps)] - 48)

IsDigits(cps) ==
    cps # <<>> /\ \A i \in 1..Len(cps) : cps[i] >= 48 /\ cps[i] <= 57

\* int(value) followed by to_bytes: int() of an int is the int itself, of a
\* float its integer part, of a str the number it spells or a ValueError, of
\* None or a dict a TypeError.  (Strings are drawn from texts without sign,
\* blanks or underscores; a type name spells no number.)
IntToBytes(value, length, signed) ==
    CASE value.t = "int"   -> to_bytes(value, length, signed)
      [] value.t = "float" ->
            to_bytes(PyInt2(value.hi, value.lo), length, signed)
      [] value.t = "str" ->
            IF IsDigits(value.s)
            THEN to_bytes(PyInt(ParseDigits(value.s)), length, signed)
            ELSE Err("ValueError")
      [] value.t = "tag" -> Err("ValueError")
      [] OTHER -> Err("TypeError")

pack_field(value, ftype) ==
    CASE ftype = "uint8"   -> IntToBytes(value, 1, FALSE)
      [] ftype = "uint16"  -> IntToBytes(value, 2, FALSE)
      [] ftype = "uint32"  -> IntToBytes(value, 4, FALSE)
      [] ftype = "strUTF8" ->
            LET s == encode_utf8(PyStrOf(value))
            IN  IF s.exc # "none" THEN s ELSE Ok(s.bytes \o <<0>>)
      [] OTHER -> Err("ValueError: Unsupported field type")

-----------------------------------------------------------------------------
(* build_blob_and_index                                                     *)

NoReturn == <<>>

\* `pdr_type not in FIELD_TYPES`, for the value rec.get('pdr_type') gives.
KnownType(pdr_type) == pdr_type.t = "tag" /\ pdr_type.tag \in DOMAIN FIELD_TYPES

\* The (fname, ftype) pairs the inner for loop visits, in its order.
FieldOrderByKeys(rec, pdr_type) ==
    LET schema == FIELD_TYPES[pdr_type]
        declared == SelectSeq(rec, LAMBDA it :
                        \E k \in 1..Len(schema) : schema[k][1] = it[1])
    IN  [i \in 1..Len(declared) |->
            schema[CHOOSE k \in 1..Len(schema) : schema[k][1] = declared[i][1]]]
FieldOrderAllKeys(rec, pdr_type) ==
    LET schema == FIELD_TYPES[pdr_type]
        others == SelectSeq(rec, LAMBDA it :
                      /\ it[1] # "pdr_type"
                      /\ \A k \in 1..Len(schema) : schema[k][1] # it[1])
    IN  schema \o [i \in 1..Len(others) |-> <<others[i][1], "strUTF8">>]
FieldOrder(rec, pdr_type) == FIELD_TYPES[pdr_type]

\* `raise KeyError(...)` when fname is not in rec: packing stops with the
\* bytes accumulated so far.
OnMissingFieldSkip(acc) == [exc |-> "none", bytes |-> acc]
OnMissingField(acc) == [exc |-> "KeyError: Missing field", bytes |-> acc]

\* blob.extend(bytes)
BlobExtendAligned(b, bytes) ==
    LET raw == b \o bytes
    IN  raw \o [i \in 1..((4 - (Len(raw) % 4)) % 4) |-> 0]
BlobExtend(b, bytes) == b \o bytes

\* The body of `for fname, ftype in FIELD_TYPES[pdr_type]`, from field k on;
\* acc is the blob as extended so far.
RECURSIVE PackFieldsFrom(_, _, _, _)
PackFieldsFrom(rec, fields, k, acc) ==
    IF k > Len(fields) THEN [exc |-> "none", bytes |-> acc]
    ELSE LET fname == fields[k][1]
             ftype == fields[k][2]
             step  == IF ~HasKey(rec, fname) THEN OnMissingField(acc)
                      ELSE LET r == pack_field(DictItem(rec, fname), ftype)
                           IN  IF r.exc # "none"
                               THEN [exc |-> r.exc, bytes |-> acc]
                               ELSE [exc |-> "none",
                                     bytes |-> BlobExtend(acc, r.bytes)]
         IN  IF step.exc # "none" THEN step
             ELSE PackFieldsFrom(rec, fields, k + 1, step.bytes)

\* `offset = len(blob)`, taken before the record's fields are packed.
RecordOffsetAfter(before, after) == Len(after)
RecordOffset(before, after) == Len(before)

\* `raise ValueError("Unknown pdr_type ...")`: the loop state after it.
OnUnknownTypeSkip(st) == [st EXCEPT !.pc = "loop", !.exc = "none"]
OnUnknownType(st) ==
    [st EXCEPT !.pc = "raised", !.exc = "ValueError: Unknown pdr_type"]

\* `index.append((handle, offset))` (line 109).
IndexInsertByHandle(idx, entry) ==
    LET before(e) == \/ e[1].hi < entry[1].hi
                     \/ e[1].hi = entry[1].hi /\ e[1].lo <= entry[1].lo
    IN  SelectSeq(idx, before) \o <<entry>>
            \o SelectSeq(idx, LAMBDA e : ~before(e))
IndexAppend(idx, entry) == Append(idx, entry)

\* One iteration of `for rec, base, idx in records`.
LoopIteration(st, item) ==
    LET rec == item[1]
        base == item[2]
        idx == item[3]
        pdr_type == DictGet(rec, "pdr_type")
    IN  IF ~KnownType(pdr_type) THEN OnUnknownType(st)
        ELSE LET packed == PackFieldsFrom(rec, FieldOrder(rec, pdr_type.tag),
                                          1, st.blob)
                 offset == RecordOffset(st.blob, packed.bytes)
                 handle == DictGet(rec, "recordHandle")
             IN  IF packed.exc # "none"
                 THEN [st EXCEPT !.blob = packed.bytes, !.pc = "raised",
                                 !.exc = packed.exc]
                 ELSE [st EXCEPT
                         !.blob = packed.bytes,
                         !.index = IndexAppend(@, <<handle, offset>>),
                         !.offsets = Append(@, <<base, idx, pdr_type.tag,
                                                 offset>>)]

-----------------------------------------------------------------------------
(* generate_header: the index table and the access macros                   *)

\* The macros written for one entry of offsets (lines 155-165): the offset
\* macro `#define {name}_offset ({offset})` and, per schema field,
\* `#define {name}_{fname} ((({pdr_type}*)(pdr_blob + {name}_offset))->{fname})`.
RecordMacros(entry) ==
    LET base == entry[1]
        idx == entry[2]
        pdr_type == entry[3]
        offset == entry[4]
        schema == FIELD_TYPES[pdr_type]
    IN  [offset_macro |-> [name |-> <<base, idx, "offset">>, value |-> offset],
         field_macros |->
            [k \in 1..Len(schema) |->
                [name |-> <<base, idx, schema[k][1]>>,
                 cast |-> pdr_type,
                 base |-> <<base, idx, "offset">>,
                 member |-> schema[k][1]]]]

\* The text written to the header, by section.
generate_header(recs, b, idx, offs) ==
    [pdr_blob |-> b,
     pdr_index |-> idx,
     macros |-> [i \in 1..Len(offs) |-> RecordMacros(offs[i])]]

\* The C struct of a pdr_type is written by hand: packed, or laid out with
\* the compiler's natural alignment.
StructLayouts == {"packed", "natural"}

\* sizeof / alignment of the member declared for a field type; a string is a
\* trailing character array.
MemberSize(ftype) ==
    CASE ftype = "uint8" -> 1 [] ftype = "uint16" -> 2
      [] ftype = "uint32" -> 4 [] OTHER -> 0
MemberAlign(layout, ftype) ==
    IF layout = "packed" \/ MemberSize(ftype) = 0 THEN 1 ELSE MemberSize(ftype)

\* offsetof(struct pdr_type, member k) under a layout.
RECURSIVE MemberOffset(_, _, _)
MemberOffset(layout, schema, k) ==
    LET align == MemberAlign(layout, schema[k][2])
        end == IF k = 1 THEN 0
               ELSE MemberOffset(layout, schema, k - 1)
                        + MemberSize(schema[k - 1][2])
    IN  ((end + align - 1) \div align) * align

\* The byte of pdr_blob a field macro designates once compiled.
AccessorOffset(h, layout, i, k) ==
    LET m == h.macros[i]
    IN  m.offset_macro.value
            + MemberOffset(layout, FIELD_TYPES[m.field_macros[k].cast], k)

-----------------------------------------------------------------------------
(* The record lists build_blob_and_index is run on                          *)

MaxRecords == 2

SensorSchema == FIELD_TYPES["CompactNumericSensorPDR"]
Handles == {5, 70000}
Names == {<<>>, <<65>>, <<233, 8364>>}

\* A JSON record: recordHandle h, the name, the k-th numeric field v + k;
\* `missing` is the position of a schema field left out (0: none), `tag` the
\* pdr_type ("" for a record without one), `rev` reverses the key order.
MkRecord(tag, h, v, name, missing, rev) ==
    LET n == Len(SensorSchema)
        item(k) == <<SensorSchema[k][1],
                     IF k = 1 THEN PyInt(h)
                     ELSE IF k = n THEN PyStr(name) ELSE PyInt(v + k)>>
        fields == [i \in 1..(IF missing = 0 THEN n ELSE n - 1) |->
                      IF missing = 0 \/ i < missing THEN item(i)
                      ELSE item(i + 1)]
        items == IF tag = "" THEN fields
                 ELSE << <<"pdr_type", PyTag(tag)>> >> \o fields
    IN  IF rev THEN Reverse(items) ELSE items

ValidRecords ==
    {MkRecord("CompactNumericSensorPDR", h, 1, name, 0, rev) :
        h \in Handles, name \in Names, rev \in BOOLEAN}

DefectiveRecords ==
    {MkRecord("StateSensorPDR", 5, 1, <<65>>, 0, FALSE),
     MkRecord("", 5, 1, <<65>>, 0, FALSE),
     MkRecord("CompactNumericSensorPDR", 5, 250, <<65>>, 0, FALSE)}
    \cup {MkRecord("CompactNumericSensorPDR", 5, 1, <<65>>, m, FALSE) :
            m \in {1, 5, Len(SensorSchema)}}

\* The record rec with the value of one of its keys replaced.
WithField(rec, key, value) ==
    [i \in 1..Len(rec) |-> IF rec[i][1] = key THEN <<key, value>> ELSE rec[i]]

\* A JSON record whose occurrenceRate is the number 2.5.
FractionalRecords ==
    {WithField(MkRecord("CompactNumericSensorPDR", 5, 1, <<65>>, 0, FALSE),
               "occurrenceRate", PyFloat(2, <<5>>))}

RecordPool == ValidRecords \cup DefectiveRecords \cup FractionalRecords

\* load_json_records on one file "sensors.json" holding a list of records.
RecordLists ==
    UNION {{[i \in 1..n |-> <<f[i], "sensors", i - 1>>] :
                f \in [1..n -> RecordPool]} : n \in 0..MaxRecords}

BuildIdle ==
    /\ records = <<>> /\ blob = <<>> /\ index = <<>> /\ offsets = <<>>
    /\ pos = 0 /\ pc = "idle" /\ exc = "none" /\ ret = NoReturn
    /\ header = NoReturn /\ c_struct = "none"

PackIdle ==
    /\ pf_value = PyNone /\ pf_ftype = "" /\ pf_result = Err("unset")
    /\ gbd_result = Err("unset") /\ pf_pc = "idle"

StrIdle ==
    /\ ps_value = PyNone /\ ps_string_type = ""
    /\ ps_result = [exc |-> "unset", bytes |-> <<>>, stderr |-> <<>>]
    /\ ps_pc = "idle"

ArrIdle ==
    /\ gca_schema = <<>> /\ plain_data = <<>> /\ gca_i = 0
    /\ data_format = <<>> /\ data_values = <<>>
    /\ gca_pc = "idle" /\ gca_exc = "none" /\ gca_ret = NoReturn
    /\ gca_stderr = <<>>

\* No call of build_blob_and_index is in progress; the module is loaded.
PairIdle == inv = <<>> /\ field_types = FIELD_TYPES

GenIdle ==
    /\ yaml_data = <<>> /\ pdr_data_list = <<>> /\ c_refs = <<>>
    /\ ref_pos = 0 /\ macros = <<>> /\ binary_data = <<>>
    /\ gen_file = 0 /\ gen_rec = 0 /\ gen_skipped = 0
    /\ gen_pc = "idle" /\ gen_exc = "none" /\ gen_out = NoReturn

ObjIdle ==
    /\ objects = <<>> /\ obj_pos = 0 /\ ids = {} /\ obj_pc = "idle"
    /\ obj_exit = <<>> /\ output_c = [exists |-> FALSE, lines |-> <<>>]

\* Nothing but the program under study is running.
OthersIdle == GenIdle /\ ObjIdle

BuildInit ==
    /\ records \in RecordLists
    /\ blob = <<>> /\ index = <<>> /\ offsets = <<>>
    /\ pos = 0 /\ pc = "loop" /\ exc = "none" /\ ret = NoReturn
    /\ header = NoReturn /\ c_struct = "none"

\* One pass through the body of the for loop (lines 97-110).
BuildRecord ==
    /\ pc = "loop" /\ pos < Len(records)
    /\ LET st == LoopIteration([blob |-> blob, index |-> index,
                                offsets |-> offsets, pc |-> pc, exc |-> exc],
                               records[pos + 1])
       IN  /\ blob' = st.blob /\ index' = st.index /\ offsets' = st.offsets
           /\ pc' = st.pc /\ exc' = st.exc
    /\ pos' = pos + 1
    /\ UNCHANGED <<records, ret, header, c_struct>>
    /\ UNCHANGED <<packVars, strVars, arrVars, pairVars>>
    /\ UNCHANGED <<genVars, objVars>>

\* `return blob, index, offsets` once the list is exhausted (line 112).
BuildReturn ==
    /\ pc = "loop" /\ pos = Len(records)
    /\ ret' = <<blob, index, offsets>>
    /\ pc' = "returned"
    /\ UNCHANGED <<records, blob, index, offsets, pos, exc, header, c_struct>>
    /\ UNCHANGED <<packVars, strVars, arrVars, pairVars>>
    /\ UNCHANGED <<genVars, objVars>>

\* main (lines 182-183): generate_header on what build_blob_and_index
\* returned; the header is then compiled against the C structs written by
\* hand (lines 12-13), whose layout the script neither emits nor checks.
GenerateHeader ==
    /\ pc = "returned"
    /\ header' = generate_header(records, ret[1], ret[2], ret[3])
    /\ c_struct' \in StructLayouts
    /\ pc' = "header"
    /\ UNCHANGED <<records, blob, index, offsets, pos, exc, ret>>
    /\ UNCHANGED <<packVars, strVars, arrVars, pairVars>>
    /\ UNCHANGED <<genVars, objVars>>

BuildNext == BuildRecord \/ BuildReturn \/ GenerateHeader

Init ==
    BuildInit /\ PackIdle /\ StrIdle /\ ArrIdle /\ PairIdle
        /\ OthersIdle
Next == BuildNext
Spec == Init /\ [][Next]_vars

-----------------------------------------------------------------------------
(* Properties of build_blob_and_index                                       *)

RecordAt(i) == records[i][1]
TypeAt(i) == DictGet(RecordAt(i), "pdr_type")

\* Every schema field is present and packs without an exception.
Encodable(rec) ==
    LET pdr_type == DictGet(rec, "pdr_type")
    IN  /\ KnownType(pdr_type)
        /\ \A k \in 1..Len(FIELD_TYPES[pdr_type.tag]) :
              LET f == FIELD_TYPES[pdr_type.tag][k]
              IN  HasKey(rec, f[1])
                  /\ pack_field(DictItem(rec, f[1]), f[2]).exc = "none"

\* encode(r, schema(r)): the fields' encodings, in the schema's order (a
\* field the record lacks has no encoding).
RecordEncoding(rec) ==
    LET schema == FIELD_TYPES[DictGet(rec, "pdr_type").tag]
    IN  Flatten([k \in 1..Len(schema) |->
                    IF HasKey(rec, schema[k][1])
                    THEN pack_field(DictItem(rec, schema[k][1]),
                                    schema[k][2]).bytes
                    ELSE <<>>])

EncodedLen(i) == Len(RecordEncoding(RecordAt(i)))

\* The bytes of the returned blob from record i's offset to the next offset.
BlobSlice(i) ==
    LET idx == ret[2]
    IN  SubSeq(ret[1], idx[i][2] + 1,
               IF i < Len(idx) THEN idx[i + 1][2] ELSE Len(ret[1]))

\* C1: in the returned index, entry i holds the sum of the encoded lengths of
\* records 0..i-1 (entry 0 holds 0), and offsets never decrease.
C1_OffsetIsRunningSum ==
    pc = "returned" =>
        /\ Len(ret[2]) = Len(records)
        /\ \A i \in 1..Len(ret[2]) :
              /\ ret[2][i][2] = SumSeq([j \in 1..(i - 1) |-> EncodedLen(j)])
              /\ i > 1 => ret[2][i - 1][2] <= ret[2][i][2]

C1_Witness ==
    /\ pc = "returned" /\ Len(ret[2]) = 2
    /\ ret[2][1][2] = 0 /\ ret[2][2][2] > 0

\* C2: the returned blob is the records' encodings back to back: its length
\* is the sum of the encoded lengths and record i's encoding sits at
\* [offset_i, offset_i + len_i).
C2_BlobIsConcatenation ==
    pc = "returned" =>
        /\ Len(ret[1]) = SumSeq([j \in 1..Len(records) |-> EncodedLen(j)])
        /\ \A i \in 1..Len(records) :
              SubSeq(ret[1], ret[2][i][2] + 1, ret[2][i][2] + EncodedLen(i))
                  = RecordEncoding(RecordAt(i))

C2_Witness ==
    /\ pc = "returned" /\ Len(records) = 2
    /\ EncodedLen(1) # EncodedLen(2)
    /\ Len(ret[1]) = EncodedLen(1) + EncodedLen(2)

DuplicateHandles ==
    \E i, j \in 1..Len(records) :
        /\ i # j
        /\ HasKey(RecordAt(i), "recordHandle")
        /\ HasKey(RecordAt(j), "recordHandle")
        /\ DictItem(RecordAt(i), "recordHandle")
               = DictItem(RecordAt(j), "recordHandle")

\* C3: a record list with two records of the same recordHandle makes the
\* call fail: it does not return, and no returned index repeats a handle.
C3_DuplicateHandleRejected ==
    /\ (pc # "loop" /\ DuplicateHandles) => (pc = "raised" /\ ret = NoReturn)
    /\ pc = "returned" =>
          \A i, j \in 1..Len(ret[2]) : i # j => ret[2][i][1] # ret[2][j][1]

\* C4: a record whose pdr_type has no entry in FIELD_TYPES aborts the call:
\* nothing is returned, whatever its position, and when the records before
\* it were encoded the exception is the unknown-pdr_type ValueError.
C4_UnknownTypeAborts ==
    \A i \in 1..Len(records) :
        ~KnownType(TypeAt(i)) =>
            /\ ret = NoReturn /\ pc # "returned"
            /\ pos >= i => pc = "raised"
            /\ (pos >= i /\ \A j \in 1..(i - 1) : Encodable(RecordAt(j)))
                  => exc = "ValueError: Unknown pdr_type"

C4_Witness ==
    /\ pc = "raised" /\ exc = "ValueError: Unknown pdr_type"
    /\ pos = 2 /\ Len(blob) > 0 /\ ret = NoReturn

LacksField(rec) ==
    /\ KnownType(DictGet(rec, "pdr_type"))
    /\ \E k \in 1..Len(FIELD_TYPES[DictGet(rec, "pdr_type").tag]) :
          ~HasKey(rec, FIELD_TYPES[DictGet(rec, "pdr_type").tag][k][1])

\* The first schema field that does not pack is one the record lacks.
FirstFaultIsMissingField(rec) ==
    LET schema == FIELD_TYPES[DictGet(rec, "pdr_type").tag]
    IN  \E m \in 1..Len(schema) :
            /\ ~HasKey(rec, schema[m][1])
            /\ \A k \in 1..(m - 1) :
                  /\ HasKey(rec, schema[k][1])
                  /\ pack_field(DictItem(rec, schema[k][1]),
                                schema[k][2]).exc = "none"

\* C5: a record that lacks a field its schema declares makes the call raise
\* the missing-field KeyError as soon as the loop reaches it; the call
\* returns nothing, the partly built blob included.
C5_MissingFieldAborts ==
    \A i \in 1..Len(records) :
        LacksField(RecordAt(i)) =>
            /\ ret = NoReturn /\ pc # "returned"
            /\ pos >= i => pc = "raised"
            /\ (/\ pos >= i
                /\ \A j \in 1..(i - 1) : Encodable(RecordAt(j))
                /\ FirstFaultIsMissingField(RecordAt(i)))
                  => exc = "KeyError: Missing field"

\* The KeyError was raised after earlier fields of the offending record
\* had been put in the local blob.
C5_Witness ==
    /\ pc = "raised" /\ exc = "KeyError: Missing field"
    /\ pos = 1 /\ Len(blob) > 0 /\ ret = NoReturn

SameMapping(r1, r2) == {r1[k] : k \in 1..Len(r1)} = {r2[k] : k \in 1..Len(r2)}

\* C6: a record's bytes are its fields' encodings in the order FIELD_TYPES
\* declares them, whatever the key order of the record: records holding the
\* same items occupy identical bytes in the blob.
C6_SchemaOrderNotKeyOrder ==
    pc = "returned" =>
        \A i \in 1..Len(records) :
            /\ BlobSlice(i) = RecordEncoding(RecordAt(i))
            /\ \A j \in 1..Len(records) :
                  SameMapping(RecordAt(i), RecordAt(j))
                      => BlobSlice(i) = BlobSlice(j)

C6_Witness ==
    /\ pc = "returned" /\ Len(records) = 2
    /\ SameMapping(RecordAt(1), RecordAt(2))
    /\ RecordAt(1) # RecordAt(2)
    /\ BlobSlice(1) = BlobSlice(2)

-----------------------------------------------------------------------------
(* gen_script.py: the integer branches of generate_binary_data              *)

GbdIntTypes == {"uint8", "uint16", "uint32", "sint8", "sint16", "sint32"}

\* What the if/elif chain appends for a scalar field of an integer type
\* (lines 56-67).
gbd_int_branch(value, field_type) ==
    CASE field_type = "uint8"  -> IntToBytes(value, 1, FALSE)
      [] field_type = "uint16" -> IntToBytes(value, 2, FALSE)
      [] field_type = "uint32" -> IntToBytes(value, 4, FALSE)
      [] field_type = "sint8"  -> IntToBytes(value, 1, TRUE)
      [] field_type = "sint16" -> IntToBytes(value, 2, TRUE)
      [] field_type = "sint32" -> IntToBytes(value, 4, TRUE)

-----------------------------------------------------------------------------
(* pack_field and the integer branches applied to single values             *)

\* Integers around every 8/16/32-bit boundary, as (hi, lo) limbs.
PackInts ==
    {PyInt(n) : n \in {-32769, -32768, -129, -128, -1, 0, 1, 127, 128, 255,
                       256, 32767, 32768, 65535, 65536, 70000}}
    \cup {PyInt2(-32769, 65535), PyInt2(-32768, 0), PyInt2(32767, 65535),
          PyInt2(32768, 0), PyInt2(65535, 65535), PyInt2(65536, 0)}

PackValues == PackInts \cup {PyStr(<<65>>), PyStr(<<233, 8364>>), PyNone}

PackTypes ==
    {"uint8", "sint8", "uint16", "sint16", "uint32", "sint32", "uint64",
     "sint64", "float32", "strASCII", "strUTF8", "strUTF16LE", "strUTF16BE",
     "real32", "bitfield8"}

PackInit ==
    /\ pf_value \in PackValues /\ pf_ftype \in PackTypes
    /\ pf_result = Err("unset") /\ gbd_result = Err("unset")
    /\ pf_pc = "call"

\* pack_field(value, ftype)
PackFieldCall ==
    /\ pf_pc = "call" /\ pf_result.exc = "unset"
    /\ pf_result' = pack_field(pf_value, pf_ftype)
    /\ UNCHANGED <<pf_value, pf_ftype, gbd_result, pf_pc>>
    /\ UNCHANGED <<buildVars, strVars, arrVars, pairVars>>
    /\ UNCHANGED <<genVars, objVars>>

\* generate_binary_data on a scalar field of an integer type
GbdIntCall ==
    /\ pf_pc = "call" /\ gbd_result.exc = "unset"
    /\ pf_ftype \in GbdIntTypes
    /\ gbd_result' = gbd_int_branch(pf_value, pf_ftype)
    /\ UNCHANGED <<pf_value, pf_ftype, pf_result, pf_pc>>
    /\ UNCHANGED <<buildVars, strVars, arrVars, pairVars>>
    /\ UNCHANGED <<genVars, objVars>>

PackNext == PackFieldCall \/ GbdIntCall
InitPack ==
    PackInit /\ BuildIdle /\ StrIdle /\ ArrIdle /\ PairIdle
        /\ OthersIdle
SpecPack == InitPack /\ [][PackNext]_vars

\* Width in bytes and signedness of the 8/16/32-bit integer types.
IntWidth(ftype) ==
    CASE ftype \in {"uint8", "sint8"} -> 1
      [] ftype \in {"uint16", "sint16"} -> 2
      [] ftype \in {"uint32", "sint32"} -> 4
IsSignedType(ftype) == ftype \in {"sint8", "sint16", "sint32"}

LimbLE(a, b) == a.hi < b.hi \/ (a.hi = b.hi /\ a.lo <= b.lo)
TypeMin(ftype) ==
    CASE ftype = "sint8"  -> PyInt(-128)
      [] ftype = "sint16" -> PyInt(-32768)
      [] ftype = "sint32" -> PyInt2(-32768, 0)
      [] OTHER -> PyInt(0)
TypeMax(ftype) ==
    CASE ftype = "uint8"  -> PyInt(255)
      [] ftype = "sint8"  -> PyInt(127)
      [] ftype = "uint16" -> PyInt(65535)
      [] ftype = "sint16" -> PyInt(32767)
      [] ftype = "uint32" -> PyInt2(65535, 65535)
      [] ftype = "sint32" -> PyInt2(32767, 65535)
InRange(v, ftype) == LimbLE(TypeMin(ftype), v) /\ LimbLE(v, TypeMax(ftype))

\* The integer a little-endian byte string of 1, 2 or 4 bytes stands for.
ByteAt(bytes, i) == IF i <= Len(bytes) THEN bytes[i] ELSE 0
DecodeLittleEndian(bytes, signed) ==
    LET l == ByteAt(bytes, 1) + 256 * ByteAt(bytes, 2)
        h == ByteAt(bytes, 3) + 256 * ByteAt(bytes, 4)
        negative == signed /\ bytes[Len(bytes)] >= 128
    IN  IF ~negative THEN PyInt2(h, l)
        ELSE IF Len(bytes) = 1 THEN PyInt(l - 256)
        ELSE IF Len(bytes) = 2 THEN PyInt(l - 65536)
        ELSE PyInt2(h - 65536, l)

\* A result is exact for (value, type): the type's width, the value's bytes.
ExactEncoding(r, v, ftype) ==
    /\ r.exc = "none"
    /\ Len(r.bytes) = IntWidth(ftype)
    /\ DecodeLittleEndian(r.bytes, IsSignedType(ftype)) = v

PrimitiveTypes ==
    {"uint8", "sint8", "uint16", "sint16", "uint32", "sint32", "uint64",
     "sint64", "float32", "strASCII", "strUTF8", "strUTF16LE", "strUTF16BE"}

\* C8: pack_field raises the unsupported-type error exactly for the types
\* outside the closed PrimitiveType set: every type of the set has a packer.
C8_ClosedSetHasPackers ==
    pf_result.exc # "unset" =>
        (pf_result.exc = "ValueError: Unsupported field type"
            <=> pf_ftype \notin PrimitiveTypes)

-----------------------------------------------------------------------------
(* code.py: STRING_HANDLERS and pack_string                                 *)

max_len == 256

\* str.encode('iso-8859-1'): one byte per character up to U+00FF.
encode_latin1(cps) ==
    IF \E i \in 1..Len(cps) : cps[i] > 255 THEN Err("UnicodeEncodeError")
    ELSE Ok(cps)

\* The 16-bit code units of a code point: itself, or a surrogate pair.
Utf16Units(cp) ==
    IF cp < 65536 THEN <<cp>>
    ELSE <<55296 + ((cp - 65536) \div 1024), 56320 + ((cp - 65536) % 1024)>>

UnitBytes(u, big) ==
    IF big THEN <<u \div 256, u % 256>> ELSE <<u % 256, u \div 256>>

RECURSIVE Utf16Bytes(_, _)
Utf16Bytes(cps, big) ==
    IF cps = <<>> THEN <<>>
    ELSE IF Len(cps) = 1
    THEN LET us == Utf16Units(cps[1])
         IN  Flatten([k \in 1..Len(us) |-> UnitBytes(us[k], big)])
    ELSE LET m == Len(cps) \div 2
         IN  Utf16Bytes(SubSeq(cps, 1, m), big)
                 \o Utf16Bytes(SubSeq(cps, m + 1, Len(cps)), big)

\* str.encode('utf-16le') / str.encode('utf-16be')
encode_utf16(cps, big) ==
    IF \E i \in 1..Len(cps) : IsSurrogate(cps[i])
    THEN Err("UnicodeEncodeError")
    ELSE Ok(Utf16Bytes(cps, big))

Then(r, suffix) == IF r.exc # "none" THEN r ELSE Ok(r.bytes \o suffix)
Prefixed(prefix, r) == IF r.exc # "none" THEN r ELSE Ok(prefix \o r.bytes)

StringTypes == {"strASCII", "strUTF-8", "strUTF-16", "strUTF-16LE", "strUTF-16BE"}

\* STRING_HANDLERS[string_type](s); a KeyError for a type without a handler.
STRING_HANDLERS(string_type, cps) ==
    CASE string_type = "strASCII"    -> Then(encode_latin1(cps), <<0>>)
      [] string_type = "strUTF-8"    -> Then(encode_utf8(cps), <<0>>)
      [] string_type = "strUTF-16"   ->
            Then(Prefixed(<<255, 254>>, encode_utf16(cps, FALSE)), <<0, 0>>)
      [] string_type = "strUTF-16LE" -> Then(encode_utf16(cps, FALSE), <<0, 0>>)
      [] string_type = "strUTF-16BE" -> Then(encode_utf16(cps, TRUE), <<0, 0>>)
      [] OTHER -> Err("KeyError")

\* string_type.startswith("strUTF-16")
StartsWithUtf16(string_type) ==
    string_type \in {"strUTF-16", "strUTF-16LE", "strUTF-16BE"}

\* The over-length branch (line 40): both arms of the conditional cut the
\* encoding to max_len - 1 bytes and append one zero byte.
Truncate(encoded, string_type) ==
    IF StartsWithUtf16(string_type)
    THEN SubSeq(encoded, 1, max_len - 1) \o <<0>>
    ELSE SubSeq(encoded, 1, max_len - 1) \o <<0>>

\* pack_string(value, string_type): the exception or the returned bytes, and
\* the lines the call printed to stderr (the value each warning names).
pack_string(value, string_type) ==
    IF value.t = "none" \/ (value.t = "str" /\ value.s = <<>>)
    THEN [exc |-> "none",
          bytes |-> IF StartsWithUtf16(string_type)
                    THEN IF string_type # "strUTF-16" THEN <<0, 0>>
                         ELSE <<255, 254, 0, 0>>
                    ELSE <<0>>,
          stderr |-> <<>>]
    ELSE LET encoded == STRING_HANDLERS(string_type, value.s)
         IN  IF encoded.exc # "none"
             THEN [exc |-> encoded.exc, bytes |-> <<>>, stderr |-> <<>>]
             ELSE IF Len(encoded.bytes) > max_len
             THEN [exc |-> "none",
                   bytes |-> Truncate(encoded.bytes, string_type),
                   stderr |-> <<value.s>>]
             ELSE [exc |-> "none", bytes |-> encoded.bytes, stderr |-> <<>>]

-----------------------------------------------------------------------------
(* pack_string applied to single values                                     *)

MaxStrLen == 258

Alphabet == <<65, 233, 8364, 128512>>

\* The string of n characters of pattern p: one character of the alphabet
\* repeated, or (the last pattern) the alphabet in rotation.
StrOf(n, p) ==
    [i \in 1..n |-> IF p <= Len(Alphabet) THEN Alphabet[p]
                    ELSE Alphabet[(i % Len(Alphabet)) + 1]]

StringValues ==
    {PyNone} \cup {PyStr(StrOf(n, p)) : n \in 0..MaxStrLen,
                                        p \in 1..(Len(Alphabet) + 1)}

StringInit ==
    /\ ps_value \in StringValues
    /\ ps_string_type \in StringTypes \cup {"strUTF-32"}
    /\ ps_result = [exc |-> "unset", bytes |-> <<>>, stderr |-> <<>>]
    /\ ps_pc = "call"

PackStringCall ==
    /\ ps_pc = "call"
    /\ ps_result' = pack_string(ps_value, ps_string_type)
    /\ ps_pc' = "done"
    /\ UNCHANGED <<ps_value, ps_string_type>>
    /\ UNCHANGED <<buildVars, packVars, arrVars, pairVars>>
    /\ UNCHANGED <<genVars, objVars>>

StringNext == PackStringCall
InitString ==
    StringInit /\ BuildIdle /\ PackIdle /\ ArrIdle /\ PairIdle
        /\ OthersIdle
SpecString == InitString /\ [][StringNext]_vars

\* The terminator of a string type and the content bytes of a value: the
\* encoding in the type's character encoding (after the byte order mark,
\* for strUTF-16), nothing for None.
Terminator(string_type) ==
    IF StartsWithUtf16(string_type) THEN <<0, 0>> ELSE <<0>>

ContentBytes(value, string_type) ==
    IF value.t = "none" THEN
        IF string_type = "strUTF-16" THEN <<255, 254>> ELSE <<>>
    ELSE CASE string_type = "strASCII"    -> value.s
           [] string_type = "strUTF-8"    -> Utf8Bytes(value.s)
           [] string_type = "strUTF-16"   ->
                 <<255, 254>> \o Utf16Bytes(value.s, FALSE)
           [] string_type = "strUTF-16LE" -> Utf16Bytes(value.s, FALSE)
           [] string_type = "strUTF-16BE" -> Utf16Bytes(value.s, TRUE)

Untruncated(value, string_type) ==
    ContentBytes(value, string_type) \o Terminator(string_type)

-----------------------------------------------------------------------------
(* code.py: generate_c_array                                                *)

PyBytes(b) == [t |-> "bytes", hi |-> 0, lo |-> 0, s |-> b, tag |-> ""]

DigitChars == <<"0", "1", "2", "3", "4", "5", "6", "7", "8", "9">>

\* f'{n}' for n >= 0, one character per element.
RECURSIVE DecimalChars(_)
DecimalChars(n) ==
    IF n < 10 THEN <<DigitChars[n + 1]>>
    ELSE DecimalChars(n \div 10) \o <<DigitChars[(n % 10) + 1]>>

\* struct.pack('<' + part, value) for a one-character part: the integer
\* codes B b H h I i Q q; a digit or any other text that is no format code
\* is a struct.error, as is a value that is no integer or out of range.
\* (The model's ints all lie within 64 bits.)
struct_pack(part, value) ==
    LET fixed(length, signed) ==
            IF value.t # "int" THEN Err("struct.error")
            ELSE IF to_bytes(value, length, signed).exc # "none"
                 THEN Err("struct.error")
                 ELSE to_bytes(value, length, signed)
        wide(signed) ==
            IF value.t # "int" \/ (~signed /\ value.hi < 0)
            THEN Err("struct.error")
            ELSE Ok(LittleEndian(value, 4)
                    \o [k \in 1..4 |-> IF value.hi < 0 THEN 255 ELSE 0])
    IN  CASE part = "B" -> fixed(1, FALSE)
          [] part = "b" -> fixed(1, TRUE)
          [] part = "H" -> fixed(2, FALSE)
          [] part = "h" -> fixed(2, TRUE)
          [] part = "I" -> fixed(4, FALSE)
          [] part = "i" -> fixed(4, TRUE)
          [] part = "Q" -> wide(FALSE)
          [] part = "q" -> wide(TRUE)
          [] OTHER -> Err("struct.error")

\* resolve_format(field_name, plain_data, prop): the property's struct code.
resolve_format(field_name, data, prop) ==
    IF HasKey(prop, "binaryFormat")
    THEN [exc |-> "none", fmt |-> DictItem(prop, "binaryFormat").tag]
    ELSE [exc |-> "KeyError", fmt |-> ""]

\* The values compute_range_field_support can give: a bit mask of one byte.
RangeSupportValues == {PyInt(0), PyInt(1), PyInt(3)}

\* The loop state of generate_c_array.
GcaState ==
    [plain_data |-> plain_data, i |-> gca_i, data_format |-> data_format,
     data_values |-> data_values, pc |-> gca_pc, exc |-> gca_exc,
     stderr |-> gca_stderr]

Raise(st, name) == [st EXCEPT !.pc = "raised", !.exc = name]

\* === STRING HANDLING === (lines 79-91)
StringField(st, field_name, prop, value) ==
    LET v == IF value.t = "none" THEN PyStr(<<>>) ELSE value
    IN  IF v.t # "str" THEN Raise(st, "ValueError: must be string")
        ELSE LET packed == pack_string(v, DictItem(prop, "stringType").tag)
             IN  IF packed.exc # "none"
                 THEN [Raise(st, packed.exc) EXCEPT
                          !.stderr = @ \o packed.stderr]
                 ELSE [st EXCEPT
                          !.stderr = @ \o packed.stderr,
                          !.data_values = Append(@, PyBytes(packed.bytes)),
                          !.data_format = @ \o DecimalChars(Len(packed.bytes))
                                            \o <<"s">>,
                          !.i = @ + 1]

\* plain_data is kept as its "pdrHeader" dict and the dict of its other keys.
PyDict == [t |-> "dict", hi |-> 0, lo |-> 0, s |-> <<>>, tag |-> ""]
InPlainData(pd, key) == key = "pdrHeader" \/ HasKey(pd.body, key)
PlainDataItem(pd, key) ==
    IF key = "pdrHeader" THEN PyDict ELSE DictItem(pd.body, key)

\* The for loop over binary_order[i:] after rangeFieldSupport (lines 102-107),
\* from position k on.
RECURSIVE RangeFields(_, _, _)
RangeFields(st, sch, k) ==
    IF k > Len(sch.binaryOrder) THEN st
    ELSE LET range_field == sch.binaryOrder[k]
         IN  IF ~InPlainData(st.plain_data, range_field)
             THEN RangeFields(st, sch, k + 1)
             ELSE IF ~HasKey(sch.properties, range_field)
             THEN Raise(st, "KeyError")
             ELSE LET rfmt == resolve_format(range_field, st.plain_data,
                                  DictItem(sch.properties, range_field))
                  IN  IF rfmt.exc # "none" THEN Raise(st, rfmt.exc)
                      ELSE RangeFields(
                             [st EXCEPT
                                !.data_format = Append(@, rfmt.fmt),
                                !.data_values = Append(@,
                                    PlainDataItem(st.plain_data, range_field))],
                             sch, k + 1)

\* plain_data["rangeFieldSupport"] = range_support
SetItem(d, key, value) ==
    IF HasKey(d, key)
    THEN [k \in 1..Len(d) |-> IF d[k][1] = key THEN <<key, value>> ELSE d[k]]
    ELSE Append(d, <<key, value>>)

\* === RANGE FIELD SUPPORT === (lines 94-108); the loop ends with `break`.
RangeSupportField(st, sch, prop, range_support) ==
    IF ~HasKey(prop, "binaryFormat") THEN
        Raise([st EXCEPT !.plain_data.body =
                   SetItem(@, "rangeFieldSupport", range_support)], "KeyError")
    ELSE LET st1 == [st EXCEPT
                       !.plain_data.body =
                           SetItem(@, "rangeFieldSupport", range_support),
                       !.data_format =
                           Append(@, DictItem(prop, "binaryFormat").tag),
                       !.data_values = Append(@, range_support),
                       !.i = @ + 1]
             st2 == RangeFields(st1, sch, st1.i + 1)
         IN  IF st2.pc = "raised" THEN st2 ELSE [st2 EXCEPT !.pc = "pack"]

\* === NORMAL FIELD === (lines 111-114)
NormalField(st, field_name, prop, value) ==
    LET fmt == resolve_format(field_name, st.plain_data, prop)
    IN  IF fmt.exc # "none" THEN Raise(st, fmt.exc)
        ELSE [st EXCEPT !.data_format = Append(@, fmt.fmt),
                        !.data_values = Append(@, value),
                        !.i = @ + 1]

\* One pass through the body of `while i < len(binary_order)` (lines 66-114).
WhileBody(st, sch, range_support) ==
    LET field_name == sch.binaryOrder[st.i + 1]
        prop == IF HasKey(sch.properties, field_name)
                THEN DictItem(sch.properties, field_name) ELSE <<>>
        value == DictGet(st.plain_data.body, field_name)
    IN  IF field_name = "pdrHeader" THEN [st EXCEPT !.i = @ + 1]
        ELSE IF prop = <<>> THEN Raise(st, "ValueError: Missing schema property")
        ELSE IF HasKey(prop, "stringType")
             THEN StringField(st, field_name, prop, value)
        ELSE IF field_name = "rangeFieldSupport"
             THEN RangeSupportField(st, sch, prop, range_support)
        ELSE NormalField(st, field_name, prop, value)

\* The packing loop (lines 117-127): `for part in data_format[1:]` takes the
\* format text one character at a time.
RECURSIVE PackParts(_, _, _, _)
PackParts(parts, values, val_idx, packed_parts) ==
    IF parts = <<>> THEN Ok(packed_parts)
    ELSE LET part == Head(parts)
         IN  IF part = "s" THEN Err("ValueError: invalid literal for int()")
             ELSE IF val_idx >= Len(values) THEN Err("IndexError")
             ELSE LET one == struct_pack(part, values[val_idx + 1])
                  IN  IF one.exc # "none" THEN one
                      ELSE PackParts(Tail(parts), values, val_idx + 1,
                                     packed_parts \o one.bytes)

\* struct.pack('<IBBHH', recordHandle, PDRHeaderVersion, PDRType,
\*             recordChangeNumber, data_length), defaults 0, 1, 0, 0.
HeaderGet(hdr, key, default) ==
    IF HasKey(hdr, key) THEN DictItem(hdr, key) ELSE PyInt(default)

PackHeader(hdr, data_length) ==
    LET fields == << <<"I", HeaderGet(hdr, "recordHandle", 0)>>,
                     <<"B", HeaderGet(hdr, "PDRHeaderVersion", 1)>>,
                     <<"B", HeaderGet(hdr, "PDRType", 0)>>,
                     <<"H", HeaderGet(hdr, "recordChangeNumber", 0)>>,
                     <<"H", PyInt(data_length)>> >>
        packed == [k \in 1..Len(fields) |->
                      struct_pack(fields[k][1], fields[k][2])]
    IN  IF \E k \in 1..Len(fields) : packed[k].exc # "none"
        THEN Err("struct.error")
        ELSE Ok(Flatten([k \in 1..Len(fields) |-> packed[k].bytes]))

HexChars == <<"0", "1", "2", "3", "4", "5", "6", "7",
              "8", "9", "A", "B", "C", "D", "E", "F">>

\* f'0x{b:02X}'
HexByte(b) == <<"0", "x", HexChars[(b \div 16) + 1], HexChars[(b % 16) + 1]>>

-----------------------------------------------------------------------------
(* The schemas and data generate_c_array is run on                          *)

Fmt(code) == << <<"binaryFormat", PyTag(code)>> >>

\* schema["properties"], the sensor name being of string type stype.
Properties(stype) ==
    << <<"sensorID", Fmt("H")>>,
       <<"unit", Fmt("b")>>,
       <<"sensorName", << <<"stringType", PyTag(stype)>> >> >>,
       <<"rangeFieldSupport", Fmt("B")>>,
       <<"warningHigh", Fmt("B")>>,
       <<"warningLow", Fmt("B")>> >>

\* schema["binaryOrder"]; "ghost" has no property.
BinaryOrders ==
    {<<>>,
     <<"pdrHeader", "sensorID", "unit">>,
     <<"pdrHeader", "sensorID", "sensorName">>,
     <<"pdrHeader", "sensorName", "unit">>,
     <<"pdrHeader", "sensorID", "rangeFieldSupport", "warningHigh",
       "warningLow">>,
     <<"pdrHeader", "sensorID", "ghost">>}

Schemas ==
    {[binaryOrder |-> o, properties |-> Properties(t)] :
        o \in BinaryOrders, t \in {"strASCII", "strUTF-8", "strUTF-16LE"}}

\* An absent key is given as PyNone and left out of the dict.
MkDict(items) == SelectSeq(items, LAMBDA it : it[2].t # "none")

SensorNames ==
    {PyNone, PyStr(<<>>), PyStr(<<111, 107>>), PyInt(3),
     PyStr(StrOf(max_len - 1, 1)), PyStr(StrOf(max_len, 1))}

PlainData ==
    {[pdrHeader |-> MkDict(<< <<"recordHandle", h>>, <<"dataLength", dl>> >>),
      body |-> MkDict(<< <<"sensorID", id>>, <<"unit", PyInt(-3)>>,
                         <<"sensorName", name>>, <<"warningHigh", wh>>,
                         <<"warningLow", PyInt(10)>> >>)] :
        h \in {PyNone, PyInt(5)},
        dl \in {PyNone, PyInt(99)},
        id \in {PyNone, PyInt(7), PyInt(70000)},
        name \in SensorNames,
        wh \in {PyNone, PyInt(90)}}

ArrInit ==
    /\ gca_schema \in Schemas
    /\ plain_data \in PlainData
    /\ gca_i = 0
    /\ data_format = <<"<">>
    /\ data_values = <<>>
    /\ gca_pc = "fields" /\ gca_exc = "none" /\ gca_ret = NoReturn
    /\ gca_stderr = <<>>

\* One pass through the while loop; the loop ends when i reaches the end of
\* binary_order or at the `break` of the rangeFieldSupport branch.
GcaField ==
    /\ gca_pc = "fields" /\ gca_i < Len(gca_schema.binaryOrder)
    /\ \E range_support \in RangeSupportValues :
          LET st == WhileBody(GcaState, gca_schema, range_support)
          IN  /\ plain_data' = st.plain_data
              /\ gca_i' = st.i
              /\ data_format' = st.data_format
              /\ data_values' = st.data_values
              /\ gca_exc' = st.exc
              /\ gca_stderr' = st.stderr
              /\ gca_pc' = IF st.pc = "fields"
                              /\ st.i >= Len(gca_schema.binaryOrder)
                           THEN "pack" ELSE st.pc
    /\ UNCHANGED <<gca_schema, gca_ret>>
    /\ UNCHANGED <<buildVars, packVars, strVars, pairVars>>
    /\ UNCHANGED <<genVars, objVars>>

\* `binary_order` is empty: the loop body never runs.
GcaNoFields ==
    /\ gca_pc = "fields" /\ gca_i >= Len(gca_schema.binaryOrder)
    /\ gca_pc' = "pack"
    /\ UNCHANGED <<gca_schema, plain_data, gca_i, data_format, data_values,
                   gca_exc, gca_ret, gca_stderr>>
    /\ UNCHANGED <<buildVars, packVars, strVars, pairVars>>
    /\ UNCHANGED <<genVars, objVars>>

\* Lines 117-148: pack the parts, set dataLength, pack the header, return
\* the C array text.
GcaPack ==
    /\ gca_pc = "pack"
    /\ LET packed_data == PackParts(Tail(data_format), data_values, 0, <<>>)
           data_length == Len(packed_data.bytes)
           packed_header == PackHeader(plain_data.pdrHeader, data_length)
       IN  IF packed_data.exc # "none"
           THEN /\ gca_pc' = "raised" /\ gca_exc' = packed_data.exc
                /\ UNCHANGED <<plain_data, gca_ret>>
           ELSE /\ plain_data' =
                      [plain_data EXCEPT !.pdrHeader =
                          SetItem(@, "dataLength", PyInt(data_length))]
                /\ IF packed_header.exc # "none"
                   THEN /\ gca_pc' = "raised"
                        /\ gca_exc' = packed_header.exc
                        /\ UNCHANGED gca_ret
                   ELSE LET full_packed ==
                                packed_header.bytes \o packed_data.bytes
                        IN  /\ gca_ret' =
                                 << [array_name |-> "pdr_data",
                                     hex_bytes |->
                                        [k \in 1..Len(full_packed) |->
                                            HexByte(full_packed[k])]] >>
                            /\ gca_pc' = "returned"
                            /\ UNCHANGED gca_exc
    /\ UNCHANGED <<gca_schema, gca_i, data_format, data_values, gca_stderr>>
    /\ UNCHANGED <<buildVars, packVars, strVars, pairVars>>
    /\ UNCHANGED <<genVars, objVars>>

ArrNext == GcaField \/ GcaNoFields \/ GcaPack
InitArray ==
    ArrInit /\ BuildIdle /\ PackIdle /\ StrIdle /\ PairIdle
        /\ OthersIdle
SpecArray == InitArray /\ [][ArrNext]_vars

\* What the call returned besides the C array text.
ReturnedWarnings == IF Len(gca_ret) > 1 THEN gca_ret[2] ELSE <<>>

\* Every fixed-size field of binaryOrder has a property and an integer value.
FixedFieldsValid ==
    \A k \in 1..Len(gca_schema.binaryOrder) :
        LET f == gca_schema.binaryOrder[k]
        IN  \/ f = "pdrHeader"
            \/ /\ HasKey(gca_schema.properties, f)
               /\ \/ HasKey(DictItem(gca_schema.properties, f), "stringType")
                  \/ /\ HasKey(plain_data.body, f)
                     /\ struct_pack(resolve_format(f, plain_data,
                            DictItem(gca_schema.properties, f)).fmt,
                            DictItem(plain_data.body, f)).exc = "none"

\* C10: a truncation by pack_string is not fatal and is reported as data:
\* the call on otherwise valid data completes and returns, alongside the
\* array, one warning per truncated string, and it returns no warning
\* when nothing was truncated.
C10_TruncationReportedAsWarning ==
    gca_pc \in {"returned", "raised"} =>
        /\ (gca_stderr # <<>> /\ FixedFieldsValid) =>
              /\ gca_pc = "returned"
              /\ Len(ReturnedWarnings) = Len(gca_stderr)
        /\ ReturnedWarnings # <<>> => gca_stderr # <<>>

-----------------------------------------------------------------------------
(* Two calls of build_blob_and_index in one process, interleaved at the     *)
(* granularity of one record                                                *)

MaxPairRecords == 2

Calls == {1, 2}

\* `blob = bytearray()` (line 92): a new empty object for this call, whatever
\* blob another call is holding.
NewBlobShared(other) == other
NewBlob(other) == <<>>

\* `index = []` (line 93).
NewIndexShared(other) == other
NewIndex(other) == <<>>

\* A record with two keys FIELD_TYPES does not declare, one before and one
\* after its own.
WithExtras(rec) ==
    << <<"vendorNote", PyStr(<<66>>)>> >> \o rec \o << <<"revision", PyInt(9)>> >>

PairPool ==
    {MkRecord("CompactNumericSensorPDR", 70000, 1, <<>>, 0, FALSE),
     MkRecord("CompactNumericSensorPDR", 5, 1, <<233, 8364>>, 0, FALSE),
     WithExtras(MkRecord("CompactNumericSensorPDR", 70000, 1, <<>>, 0, FALSE))}

PairLists ==
    UNION {{[i \in 1..n |-> <<f[i], "sensors", i - 1>>] :
                f \in [1..n -> PairPool]} : n \in 0..MaxPairRecords}

\* A call that has received its argument and has not yet run a statement.
NewCall(recs) ==
    [records |-> recs, blob |-> <<>>, index |-> <<>>, offsets |-> <<>>,
     pos |-> 0, pc |-> "ready", exc |-> "none", ret |-> NoReturn]

PairInit ==
    /\ inv \in [Calls -> {NewCall(recs) : recs \in PairLists}]
    /\ field_types = FIELD_TYPES

\* Lines 92-95 of call c: the three locals are created.
PairStart(c) ==
    /\ inv[c].pc = "ready"
    /\ inv' = [inv EXCEPT ![c].blob = NewBlob(inv[3 - c].blob),
                          ![c].index = NewIndex(inv[3 - c].index),
                          ![c].offsets = <<>>,
                          ![c].pc = "loop"]
    /\ UNCHANGED field_types
    /\ UNCHANGED <<buildVars, packVars, strVars, arrVars>>
    /\ UNCHANGED <<genVars, objVars>>

\* One pass of call c through the body of its for loop (lines 97-110).
PairRecord(c) ==
    /\ inv[c].pc = "loop" /\ inv[c].pos < Len(inv[c].records)
    /\ LET st == LoopIteration([blob |-> inv[c].blob, index |-> inv[c].index,
                                offsets |-> inv[c].offsets, pc |-> inv[c].pc,
                                exc |-> inv[c].exc],
                               inv[c].records[inv[c].pos + 1])
       IN  inv' = [inv EXCEPT ![c].blob = st.blob, ![c].index = st.index,
                              ![c].offsets = st.offsets, ![c].pc = st.pc,
                              ![c].exc = st.exc, ![c].pos = @ + 1]
    /\ UNCHANGED field_types
    /\ UNCHANGED <<buildVars, packVars, strVars, arrVars>>
    /\ UNCHANGED <<genVars, objVars>>

\* `return blob, index, offsets` of call c (line 112).
PairReturn(c) ==
    /\ inv[c].pc = "loop" /\ inv[c].pos = Len(inv[c].records)
    /\ inv' = [inv EXCEPT ![c].ret = <<inv[c].blob, inv[c].index,
                                       inv[c].offsets>>,
                          ![c].pc = "returned"]
    /\ UNCHANGED field_types
    /\ UNCHANGED <<buildVars, packVars, strVars, arrVars>>
    /\ UNCHANGED <<genVars, objVars>>

PairNext == \E c \in Calls : PairStart(c) \/ PairRecord(c) \/ PairReturn(c)

InitPair ==
    PairInit /\ BuildIdle /\ PackIdle /\ StrIdle /\ ArrIdle
        /\ OthersIdle
SpecPair == InitPair /\ [][PairNext]_vars

\* The for loop from record k on, run without interruption.
RECURSIVE RunLoop(_, _, _)
RunLoop(st, recs, k) ==
    IF st.pc # "loop" \/ k > Len(recs) THEN st
    ELSE RunLoop(LoopIteration(st, recs[k]), recs, k + 1)

\* build_blob_and_index(recs) as one call run alone: the exception it raises
\* or the tuple it returns.
build_blob_and_index(recs) ==
    LET st == RunLoop([blob |-> <<>>, index |-> <<>>, offsets |-> <<>>,
                       pc |-> "loop", exc |-> "none"], recs, 1)
    IN  IF st.pc = "loop"
        THEN [pc |-> "returned", exc |-> "none",
              ret |-> <<st.blob, st.index, st.offsets>>]
        ELSE [pc |-> "raised", exc |-> st.exc, ret |-> NoReturn]

Finished(c) == inv[c].pc \in {"returned", "raised"}
Outcome(c) == [pc |-> inv[c].pc, exc |-> inv[c].exc, ret |-> inv[c].ret]

\* C11: two calls given the same record list end the same way: the same
\* exception, or byte-identical blobs and equal index and offsets lists,
\* however the two calls were scheduled.
C11_Deterministic ==
    \A c, d \in Calls :
        (Finished(c) /\ Finished(d) /\ inv[c].records = inv[d].records)
            => Outcome(c) = Outcome(d)

C11_Witness ==
    /\ inv # <<>> /\ inv[1].pc = "returned" /\ inv[2].pc = "returned"
    /\ Len(inv[1].records) = 2 /\ inv[1].records = inv[2].records
    /\ inv[1].ret = inv[2].ret /\ Len(inv[1].ret[1]) > 0

Perms(n) ==
    {p \in [1..n -> 1..n] : \A i, j \in 1..n : i # j => p[i] # p[j]}

PairRec(c, i) == inv[c].records[i][1]

\* The bytes of call c's returned blob from record i's index offset up to
\* the next record's offset (the end of the blob for the last record).
PairSlice(c, i) ==
    LET b == inv[c].ret[1]
        idx == inv[c].ret[2]
    IN  SubSeq(b, idx[i][2] + 1,
               IF i < Len(idx) THEN idx[i + 1][2] ELSE Len(b))

\* C12: when two calls return and the second list is a permutation of the
\* first, every record occupies the same bytes in both blobs (the slice at
\* its own index offset) and the two blobs have the same length.
C12_PermutationKeepsContent ==
    \A c, d \in Calls :
        (/\ inv[c].pc = "returned" /\ inv[d].pc = "returned"
         /\ Len(inv[c].records) = Len(inv[d].records)) =>
            \A p \in Perms(Len(inv[c].records)) :
                (\A i \in 1..Len(inv[d].records) :
                    PairRec(d, i) = PairRec(c, p[i])) =>
                    /\ Len(inv[c].ret[1]) = Len(inv[d].ret[1])
                    /\ \A i \in 1..Len(inv[d].records) :
                          PairSlice(d, i) = PairSlice(c, p[i])

\* Two records of different encoded length in swapped order: the second
\* offsets differ, the content does not.
C12_Witness ==
    /\ inv # <<>> /\ inv[1].pc = "returned" /\ inv[2].pc = "returned"
    /\ Len(inv[1].records) = 2 /\ Len(inv[2].records) = 2
    /\ PairRec(1, 1) = PairRec(2, 2) /\ PairRec(1, 2) = PairRec(2, 1)
    /\ inv[1].ret[2][2][2] # inv[2].ret[2][2][2]
    /\ PairSlice(1, 1) = PairSlice(2, 2) /\ PairSlice(1, 2) = PairSlice(2, 1)

\* C13: the returned index has one entry per input record, in input order:
\* entry i carries the recordHandle of records[i], whether or not the
\* handles increase.
C13_IndexKeepsInputOrder ==
    pc = "returned" =>
        /\ Len(ret[2]) = Len(records)
        /\ \A i \in 1..Len(records) :
              ret[2][i][1] = DictGet(RecordAt(i), "recordHandle")

\* Handles 70000 then 5 come back in that order.
C13_Witness ==
    /\ pc = "returned" /\ Len(records) = 2
    /\ DictGet(RecordAt(1), "recordHandle") = PyInt(70000)
    /\ DictGet(RecordAt(2), "recordHandle") = PyInt(5)
    /\ ret[2][1][1] = PyInt(70000) /\ ret[2][2][1] = PyInt(5)

-----------------------------------------------------------------------------
(* Properties of the access macros of generate_header                       *)

SchemaAt(i) == FIELD_TYPES[TypeAt(i).tag]

\* Where field k of record i starts inside the record's encoding: the
\* encoded lengths of the fields before it.
FieldStart(i, k) ==
    SumSeq([j \in 1..(k - 1) |->
               Len(pack_field(DictItem(RecordAt(i), SchemaAt(i)[j][1]),
                              SchemaAt(i)[j][2]).bytes)])

\* C14: for every record and every field of its schema, the access macro
\* written to the header designates the byte of the blob at the record's
\* offset plus the encoded lengths of the record's preceding fields.
C14_AccessorOffsetIsCumulative ==
    pc = "header" =>
        /\ Len(header.macros) = Len(records)
        /\ \A i \in 1..Len(records) :
              \A k \in 1..Len(SchemaAt(i)) :
                  AccessorOffset(header, c_struct, i, k)
                      = ret[2][i][2] + FieldStart(i, k)

IntegerTypes == {"uint8", "uint16", "uint32"}

\* The bytes a consumer reads through the macro of field k of record i.
AccessorRead(i, k) ==
    LET at == AccessorOffset(header, c_struct, i, k)
    IN  [n \in 1..IntWidth(SchemaAt(i)[k][2]) |->
            ByteAt(header.pdr_blob, at + n)]

\* C15: for every encoded record and every integer field of its schema, the
\* bytes read through the field's access macro, taken as a little-endian
\* integer of the declared type, are the value the record supplied.
C15_IntegerRoundTrip ==
    pc = "header" =>
        \A i \in 1..Len(records) :
            \A k \in 1..Len(SchemaAt(i)) :
                SchemaAt(i)[k][2] \in IntegerTypes =>
                    DecodeLittleEndian(AccessorRead(i, k), FALSE)
                        = DictItem(RecordAt(i), SchemaAt(i)[k][1])

HexDigit(c) == CHOOSE d \in 0..15 : HexChars[d + 1] = c

\* The bytes of the returned C array, read back from its hex text.
ArrayBytes ==
    [k \in 1..Len(gca_ret[1].hex_bytes) |->
        16 * HexDigit(gca_ret[1].hex_bytes[k][3])
            + HexDigit(gca_ret[1].hex_bytes[k][4])]

\* Positions of binaryOrder that contribute a value to the body: every field
\* up to rangeFieldSupport, and after it the fields the data holds.
BodyPositions ==
    LET o == gca_schema.binaryOrder
        rpos == IF \E k \in 1..Len(o) : o[k] = "rangeFieldSupport"
                THEN CHOOSE k \in 1..Len(o) : o[k] = "rangeFieldSupport"
                ELSE Len(o)
    IN  {k \in 1..Len(o) :
            /\ o[k] # "pdrHeader"
            /\ k <= rpos \/ InPlainData(plain_data, o[k])}

\* The body the schema and the data call for: each contributing field's
\* encoding, in binaryOrder.
ExpectedBody ==
    LET o == gca_schema.binaryOrder
        nth(j) == CHOOSE k \in BodyPositions :
                      Cardinality({m \in BodyPositions : m <= k}) = j
        enc(f) ==
            LET prop == DictItem(gca_schema.properties, f)
                value == DictGet(plain_data.body, f)
            IN  IF HasKey(prop, "stringType")
                THEN pack_string(IF value.t = "none" THEN PyStr(<<>>)
                                 ELSE value,
                                 DictItem(prop, "stringType").tag).bytes
                ELSE struct_pack(DictItem(prop, "binaryFormat").tag,
                                 value).bytes
    IN  Flatten([j \in 1..Cardinality(BodyPositions) |-> enc(o[nth(j)])])

\* The string fields of binaryOrder hold a str or nothing.
StringFieldsValid ==
    \A k \in 1..Len(gca_schema.binaryOrder) :
        LET f == gca_schema.binaryOrder[k]
        IN  (/\ HasKey(gca_schema.properties, f)
             /\ HasKey(DictItem(gca_schema.properties, f), "stringType"))
                => DictGet(plain_data.body, f).t \in {"str", "none"}

\* C16: the array generate_c_array emits is a 10-byte header followed by
\* the packed body, and the header's dataLength (bytes 9-10, little-endian)
\* is the body's exact byte length, whatever dataLength the data supplied;
\* this holds for every valid input, bodies with strings included.
C16_HeaderLengthIsBodyLength ==
    /\ gca_pc = "returned" =>
          /\ Len(ArrayBytes) >= 10
          /\ SubSeq(ArrayBytes, 11, Len(ArrayBytes)) = ExpectedBody
          /\ ArrayBytes[9] + 256 * ArrayBytes[10] = Len(ArrayBytes) - 10
          /\ DictItem(plain_data.pdrHeader, "dataLength")
                 = PyInt(Len(ArrayBytes) - 10)
    /\ (FixedFieldsValid /\ StringFieldsValid) => gca_pc # "raised"

\* C17: calls of build_blob_and_index share no mutable state: however two
\* calls on independent lists are interleaved, each ends as it does when run
\* alone, and no step of any call changes FIELD_TYPES or a call's records.
C17_CallsShareNoState ==
    /\ [](\A c \in Calls :
            Finished(c) => Outcome(c) = build_blob_and_index(inv[c].records))
    /\ [](field_types = FIELD_TYPES)
    /\ [][/\ field_types' = field_types
          /\ \A c \in Calls : inv'[c].records = inv[c].records]_vars

\* Two calls on different lists have both returned, each with its own blob.
C17_Witness ==
    /\ inv # <<>> /\ inv[1].pc = "returned" /\ inv[2].pc = "returned"
    /\ Len(inv[1].records) = 2 /\ Len(inv[2].records) = 2
    /\ inv[1].records # inv[2].records
    /\ inv[1].ret[1] # inv[2].ret[1]
    /\ inv[1].ret = build_blob_and_index(inv[1].records).ret
    /\ inv[2].ret = build_blob_and_index(inv[2].records).ret

\* The items of a record that build_blob_and_index has a use for: pdr_type
\* and the fields its schema declares.
DeclaredItems(rec) ==
    LET pdr_type == DictGet(rec, "pdr_type")
    IN  SelectSeq(rec, LAMBDA it :
            \/ it[1] = "pdr_type"
            \/ /\ KnownType(pdr_type)
               /\ \E k \in 1..Len(FIELD_TYPES[pdr_type.tag]) :
                     FIELD_TYPES[pdr_type.tag][k][1] = it[1])

\* Two record lists that differ at most in undeclared fields.
SameButExtras(l1, l2) ==
    /\ Len(l1) = Len(l2)
    /\ \A i \in 1..Len(l1) :
          /\ DeclaredItems(l1[i][1]) = DeclaredItems(l2[i][1])
          /\ l1[i][2] = l2[i][2] /\ l1[i][3] = l2[i][3]

HasExtras(rec) == DeclaredItems(rec) # rec

\* C18: fields a record's schema does not declare have no effect: two calls
\* whose lists differ only in such fields end the same way, with equal
\* blob, index and offsets, and a list of encodable records returns whether
\* or not its records carry undeclared fields.
C18_UndeclaredFieldsIgnored ==
    \A c \in Calls :
        /\ \A d \in Calls :
              (/\ Finished(c) /\ Finished(d)
               /\ SameButExtras(inv[c].records, inv[d].records))
                  => Outcome(c) = Outcome(d)
        /\ (/\ Finished(c)
            /\ \A i \in 1..Len(inv[c].records) :
                  Encodable(DeclaredItems(PairRec(c, i))))
              => inv[c].pc = "returned"

\* A list with undeclared fields and the same list without them gave the
\* same blob, index and offsets.
C18_Witness ==
    /\ inv # <<>> /\ inv[1].pc = "returned" /\ inv[2].pc = "returned"
    /\ Len(inv[1].records) = 2
    /\ inv[1].records # inv[2].records
    /\ SameButExtras(inv[1].records, inv[2].records)
    /\ \E i \in 1..2 : HasExtras(PairRec(1, i)) /\ ~HasExtras(PairRec(2, i))
    /\ inv[1].ret = inv[2].ret /\ Len(inv[1].ret[1]) > 0

-----------------------------------------------------------------------------
(* String properties of pack_string and generate_c_array                    *)

\* C19: what pack_string returns for strUTF-16LE / strUTF-16BE is whole
\* 2-byte code units of the value followed by the 2-byte terminator 00 00,
\* so its length is even; this holds for truncated values too.
C19_Utf16WholeUnitsAndTerminator ==
    (/\ ps_pc = "done" /\ ps_result.exc = "none"
     /\ ps_string_type \in {"strUTF-16LE", "strUTF-16BE"}) =>
        LET out == ps_result.bytes
            content == ContentBytes(ps_value, ps_string_type)
        IN  /\ Len(out) % 2 = 0
            /\ Len(out) >= 2
            /\ SubSeq(out, Len(out) - 1, Len(out)) = <<0, 0>>
            /\ Len(out) - 2 <= Len(content)
            /\ SubSeq(out, 1, Len(out) - 2) = SubSeq(content, 1, Len(out) - 2)

\* The value of a field is None (absent) or the empty string.
EmptyValue(f) ==
    LET value == DictGet(plain_data.body, f)
    IN  value.t = "none" \/ value = PyStr(<<>>)

IsStringField(f) ==
    /\ HasKey(gca_schema.properties, f)
    /\ HasKey(DictItem(gca_schema.properties, f), "stringType")

\* C20: pack_string gives the terminator alone for None and for "" (one
\* zero byte for strASCII and strUTF-8, two for strUTF-16LE and
\* strUTF-16BE), and generate_c_array encodes an absent or empty string
\* field that way and completes instead of failing.
C20_EmptyStringIsTerminatorOnly ==
    /\ \A t \in {"strASCII", "strUTF-8", "strUTF-16LE", "strUTF-16BE"} :
          \A v \in {PyNone, PyStr(<<>>)} :
              /\ pack_string(v, t).exc = "none"
              /\ pack_string(v, t).bytes = Terminator(t)
    /\ gca_pc = "pack" =>
          \A k \in 1..Len(gca_schema.binaryOrder) :
              LET f == gca_schema.binaryOrder[k]
                  n == Cardinality({m \in 1..k :
                           gca_schema.binaryOrder[m] # "pdrHeader"})
              IN  (IsStringField(f) /\ EmptyValue(f)) =>
                      data_values[n] = PyBytes(Terminator(
                          DictItem(DictItem(gca_schema.properties, f),
                                   "stringType").tag))
    /\ (/\ FixedFieldsValid
        /\ \A k \in 1..Len(gca_schema.binaryOrder) :
              IsStringField(gca_schema.binaryOrder[k])
                  => EmptyValue(gca_schema.binaryOrder[k]))
          => gca_pc # "raised"

\* C21: a strASCII value is encoded as one byte per character and one
\* 0x00 terminator; a value with a character above 127 is an error, and no
\* byte above 127 is ever part of a strASCII encoding.
C21_AsciiRejectsHighCharacters ==
    (ps_pc = "done" /\ ps_string_type = "strASCII" /\ ps_value.t = "str") =>
        LET cps == ps_value.s
            out == ps_result.bytes
        IN  /\ (\E i \in 1..Len(cps) : cps[i] > 127) => ps_result.exc # "none"
            /\ \A i \in 1..Len(out) : out[i] <= 127
            /\ (ps_result.exc = "none" /\ Len(cps) < max_len)
                  => out = cps \o <<0>>

-----------------------------------------------------------------------------
(* gen_script.py: generate_binary_data                                      *)

\* A dict value: its items in insertion order.
PyDictOf(items) == [t |-> "dict", hi |-> 0, lo |-> 0, s |-> items, tag |-> ""]

\* The position of the highest set bit of m >= 1, counted from 0.
RECURSIVE BitLen(_)
BitLen(m) == IF m < 2 THEN 0 ELSE 1 + BitLen(m \div 2)

RECURSIVE Pow2(_)
Pow2(k) == IF k = 0 THEN 1 ELSE 2 * Pow2(k - 1)

\* A number as sign, m and s with |value| = m / 2^s: an int of absolute
\* value below 2^31, or a float n or n + 0.5.
Dyadic(value) ==
    LET n == value.hi * Limb + value.lo
        half == value.t = "float" /\ value.s = <<5>>
    IN  [neg |-> n < 0,
         m |-> IF half THEN 2 * n + 1 ELSE IF n < 0 THEN -n ELSE n,
         s |-> IF half THEN 1 ELSE 0]

\* Hex digit k (1..13) of the 52-bit fraction whose leading w bits are frac.
FractionDigit(frac, w, k) ==
    IF 4 * k <= w THEN (frac \div Pow2(w - 4 * k)) % 16
    ELSE IF 4 * (k - 1) < w
         THEN (frac % Pow2(w - 4 * (k - 1))) * Pow2(4 * k - w)
         ELSE 0

HexLower(d) == IF d < 10 THEN 48 + d ELSE 87 + d

\* float.hex() of a number: '0x1.<13 hex digits>p<sign><exponent>', or
\* '0x0.0p+0' for zero, as character codes.
float_hex(value) ==
    LET d == Dyadic(value)
        w == BitLen(d.m)
        e == w - d.s
        frac == d.m - Pow2(w)
        sign == IF d.neg THEN <<45>> ELSE <<>>
    IN  IF d.m = 0 THEN <<48, 120, 48, 46, 48, 112, 43, 48>>
        ELSE sign \o <<48, 120, 49, 46>>
                  \o [k \in 1..13 |-> HexLower(FractionDigit(frac, w, k))]
                  \o <<112, IF e < 0 THEN 45 ELSE 43>>
                  \o Decimal(0, IF e < 0 THEN -e ELSE e)

\* float(value): for an int or a float the number, for None a TypeError, for
\* a str that spells no number a ValueError.
IsNumber(value) == value.t \in {"int", "float"}

\* str.encode('ascii')
encode_ascii(cps) ==
    IF \E i \in 1..Len(cps) : cps[i] > 127 THEN Err("UnicodeEncodeError")
    ELSE Ok(cps)

\* str.encode('utf-32'): the byte order mark FF FE 00 00, then four
\* little-endian bytes per character.
encode_utf32(cps) ==
    IF \E i \in 1..Len(cps) : IsSurrogate(cps[i])
    THEN Err("UnicodeEncodeError")
    ELSE Ok(<<255, 254, 0, 0>>
            \o Flatten([i \in 1..Len(cps) |->
                  <<cps[i] % 256, (cps[i] \div 256) % 256,
                    cps[i] \div 65536, 0>>]))

\* value.encode(...): only a str has the method.
EncodeStr(value, encoded) ==
    IF value.t = "str" THEN Then(encoded, <<0>>) ELSE Err("AttributeError")

\* get_value(data_dict, key) (lines 36-45).  (A 'commonHeader' entry of the
\* schemas drawn is always a dict.)
get_value(data_dict, key) ==
    IF HasKey(data_dict, key) THEN DictItem(data_dict, key)
    ELSE IF /\ HasKey(data_dict, "commonHeader")
            /\ HasKey(DictItem(data_dict, "commonHeader").s, key)
         THEN DictItem(DictItem(data_dict, "commonHeader").s, key)
         ELSE PyTag("unknown")

\* The if/elif chain of lines 56-77 for one scalar value: the bytes it
\* appends; no branch appends nothing.
gbd_scalar(value, field_type) ==
    IF field_type.t # "tag" THEN Ok(<<>>)
    ELSE CASE field_type.tag \in GbdIntTypes ->
                 gbd_int_branch(value, field_type.tag)
           [] field_type.tag = "float" ->
                 IF IsNumber(value) THEN Ok(float_hex(value) \o <<0>>)
                 ELSE IF value.t = "str"
                      THEN IF IsDigits(value.s)
                           THEN Ok(float_hex(PyInt(ParseDigits(value.s)))
                                   \o <<0>>)
                           ELSE Err("ValueError")
                 ELSE Err("TypeError")
           [] field_type.tag = "strUTF8" ->
                 EncodeStr(value, encode_utf8(value.s))
           [] field_type.tag = "strUTF16" ->
                 EncodeStr(value, Prefixed(<<255, 254>>,
                                           encode_utf16(value.s, FALSE)))
           [] field_type.tag = "strUTF32" ->
                 EncodeStr(value, encode_utf32(value.s))
           [] field_type.tag = "strASCII" ->
                 EncodeStr(value, encode_ascii(value.s))
           [] OTHER -> Ok(<<>>)

\* `for field, value in pdr_data.items()` from item k on (lines 50-79); a
\* dict value is encoded by the same function with the same field_types.
RECURSIVE gbd_items(_, _, _, _)
gbd_items(items, k, types, acc) ==
    IF k > Len(items) THEN Ok(acc)
    ELSE LET field == items[k][1]
             value == items[k][2]
             one == IF value.t = "dict"
                    THEN gbd_items(value.s, 1, types, <<>>)
                    ELSE gbd_scalar(value, get_value(types, field))
         IN  IF one.exc # "none" THEN one
             ELSE gbd_items(items, k + 1, types, acc \o one.bytes)

generate_binary_data(pdr_data, types) == gbd_items(pdr_data, 1, types, <<>>)

-----------------------------------------------------------------------------
(* gen_script.py: main = load files, process_c_files, generate_output       *)

MaxGenRecords == 2
MaxRefs == 1

TypeItem(name) == <<"pdr_type", PyTag(name)>>
CommonHeader(h) ==
    <<"commonHeader", PyDictOf(<< <<"h", PyInt(h)>>, <<"v", PyInt(1)>> >>)>>

\* The field types one YAML file gives for its PDR type.
SensorFieldTypes ==
    << <<"commonHeader", PyDictOf(<< <<"h", PyTag("uint16")>>,
                                     <<"v", PyTag("uint8")>> >>)>>,
       <<"body", PyDictOf(<< <<"id", PyTag("uint8")>> >>)>>,
       <<"z", PyTag("uint8")>>,
       <<"gain", PyTag("float")>>,
       <<"legacy", PyTag("bitfield8")>> >>

\* load_yaml_files: yaml_data[pdr_type] = data[pdr_type] (lines 6-16).
YamlData == << <<"sensor", SensorFieldTypes>> >>

\* Records of the JSON files, as their items in file order.
GenRecords ==
    { <<TypeItem("sensor"), CommonHeader(5), <<"z", PyInt(9)>> >>,
      <<TypeItem("sensor"), <<"z", PyInt(9)>>, CommonHeader(5)>>,
      <<TypeItem("sensor"), CommonHeader(6),
        <<"body", PyDictOf(<< <<"id", PyInt(7)>> >>)>> >>,
      <<TypeItem("sensor"), CommonHeader(5), <<"gain", PyFloat(2, <<5>>)>> >>,
      <<TypeItem("sensor"), CommonHeader(5), <<"gain", PyInt(0)>> >>,
      <<CommonHeader(5), <<"z", PyInt(9)>> >>,
      <<TypeItem("fan"), CommonHeader(5)>>,
      <<TypeItem("sensor"), CommonHeader(5), <<"legacy", PyInt(3)>>,
        <<"extra", PyInt(4)>> >>,
      <<TypeItem("sensor"), CommonHeader(5), <<"z", PyInt(300)>> >> }

RECURSIVE SeqsUpTo(_, _)
SeqsUpTo(S, n) ==
    IF n = 0 THEN {<<>>}
    ELSE LET shorter == SeqsUpTo(S, n - 1)
         IN  shorter \cup {Append(sq, x) : sq \in shorter, x \in S}

\* load_json_files (lines 18-34): per file the list [{"file_name": name}]
\* followed by the records of the file.
JsonFile(name, recs) == << << <<"file_name", PyTag(name)>> >> >> \o recs

JsonFileLists ==
    LET first == {JsonFile("sensors", recs) :
                     recs \in SeqsUpTo(GenRecords, MaxGenRecords)}
        second == {JsonFile("effecters",
                       << <<TypeItem("sensor"), CommonHeader(8)>> >>)}
    IN  {<<f>> : f \in first} \cup {<<f, g>> : f \in first, g \in second}

\* One `#define GET_PDR_FIELD_VALUE(file, index, field)` of a C file that
\* defines PDR_USE: the three \w+ groups of the regular expression, the
\* index as the text matched.
Ref(file, idx, field) == [file |-> file, index |-> idx, field |-> field]
RefPool ==
    { Ref("sensors", <<48>>, "h"), Ref("sensors", <<49>>, "h"),
      Ref("sensors", <<50>>, "h"), Ref("effecters", <<49>>, "h"),
      Ref("absent", <<48>>, "h"), Ref("sensors", <<78>>, "h"),
      Ref("sensors", <<48>>, "z") }

\* One collected line f"#define {file}_{index}_{field} {value}".
Macro(file, idx, field, value) ==
    [file |-> file, index |-> idx, field |-> field, value |-> PyStrOf(value)]

\* generate_macros (lines 81-94): a macro for every sub-field named
\* field_name of every dict-valued field of the record.
generate_macros(pdr_data, pdr_file_name, idx, field_name) ==
    Flatten([i \in 1..Len(pdr_data) |->
        IF pdr_data[i][2].t # "dict" THEN <<>>
        ELSE LET sub == pdr_data[i][2].s
             IN  Flatten([j \in 1..Len(sub) |->
                     IF sub[j][1] # field_name THEN <<>>
                     ELSE << Macro(pdr_file_name, idx, field_name,
                                   sub[j][2]) >>])])

FileNameOf(d) ==
    IF HasKey(d[1], "file_name") THEN DictItem(d[1], "file_name").tag ELSE ""

\* The body of the loop over macro_defs for one definition (lines 108-118):
\* the macros it adds, or the exception it raises.
ref_macros(list, ref) ==
    IF ~IsDigits(ref.index) THEN [exc |-> "none", macros |-> <<>>]
    ELSE LET idx == ParseDigits(ref.index)
             pdr_data == SelectSeq(list, LAMBDA d : FileNameOf(d) = ref.file)
         IN  IF ~(0 <= idx /\ idx < Len(list))
             THEN [exc |-> "none", macros |-> <<>>]
             ELSE IF pdr_data = <<>> \/ Len(pdr_data[1]) < 2
                  THEN [exc |-> "IndexError", macros |-> <<>>]
                  ELSE [exc |-> "none",
                        macros |-> generate_macros(pdr_data[1][2], ref.file,
                                                   idx, ref.field)]

GenInit ==
    /\ yaml_data = YamlData
    /\ pdr_data_list \in JsonFileLists
    /\ c_refs \in SeqsUpTo(RefPool, MaxRefs)
    /\ ref_pos = 0 /\ macros = <<>> /\ binary_data = <<>>
    /\ gen_file = 0 /\ gen_rec = 0 /\ gen_skipped = 0
    /\ gen_pc = "macros" /\ gen_exc = "none" /\ gen_out = NoReturn

GenOthersUnchanged ==
    UNCHANGED <<buildVars, packVars, strVars, arrVars, pairVars, objVars>>

\* process_c_files, one GET_PDR_FIELD_VALUE definition (lines 107-118).
ProcessRef ==
    /\ gen_pc = "macros" /\ ref_pos < Len(c_refs)
    /\ LET r == ref_macros(pdr_data_list, c_refs[ref_pos + 1])
       IN  /\ ref_pos' = ref_pos + 1
           /\ macros' = macros \o r.macros
           /\ gen_exc' = r.exc
           /\ gen_pc' = IF r.exc = "none" THEN "macros" ELSE "raised"
    /\ UNCHANGED <<yaml_data, pdr_data_list, c_refs, binary_data, gen_file,
                   gen_rec, gen_skipped, gen_out>>
    /\ GenOthersUnchanged

\* process_c_files returns (line 119) and main calls generate_output, which
\* starts with an empty bytearray (lines 161-162, 123).
ProcessReturn ==
    /\ gen_pc = "macros" /\ ref_pos = Len(c_refs)
    /\ gen_pc' = IF pdr_data_list = <<>> THEN "write" ELSE "output"
    /\ UNCHANGED <<yaml_data, pdr_data_list, c_refs, ref_pos, macros,
                   binary_data, gen_file, gen_rec, gen_skipped, gen_exc,
                   gen_out>>
    /\ GenOthersUnchanged

\* The position after entry gen_rec + 1 of file gen_file + 1.
LastOfFile == gen_rec + 1 = Len(pdr_data_list[gen_file + 1])
LastOfAll == LastOfFile /\ gen_file + 1 = Len(pdr_data_list)

\* generate_output, one sub_pdr of the nested loops (lines 124-131): an
\* entry without pdr_type is passed over, any other is encoded with the
\* field types of its type, {} when yaml_data has none.
OutputEntry ==
    /\ gen_pc = "output"
    /\ LET sub_pdr == pdr_data_list[gen_file + 1][gen_rec + 1]
           pdr_type == DictGet(sub_pdr, "pdr_type")
           types == IF HasKey(yaml_data, pdr_type.tag)
                    THEN DictItem(yaml_data, pdr_type.tag) ELSE <<>>
           r == IF pdr_type = PyNone THEN Ok(<<>>)
                ELSE generate_binary_data(sub_pdr, types)
       IN  /\ gen_skipped' = IF pdr_type = PyNone THEN gen_skipped + 1
                             ELSE gen_skipped
           /\ gen_exc' = r.exc
           /\ binary_data' = binary_data \o r.bytes
           /\ gen_pc' = IF r.exc # "none" THEN "raised"
                        ELSE IF LastOfAll THEN "write" ELSE "output"
    /\ gen_rec' = IF LastOfFile THEN 0 ELSE gen_rec + 1
    /\ gen_file' = IF LastOfFile THEN gen_file + 1 ELSE gen_file
    /\ UNCHANGED <<yaml_data, pdr_data_list, c_refs, ref_pos, macros, gen_out>>
    /\ GenOthersUnchanged

\* f'0x{b:02x}'
HexLowerByte(b) == <<48, 120, HexLower(b \div 16), HexLower(b % 16)>>

\* generate_output writes the source file with the array and the header
\* with the macros (lines 141-155).
OutputWrite ==
    /\ gen_pc = "write"
    /\ gen_out' = [src |-> [k \in 1..Len(binary_data) |->
                               HexLowerByte(binary_data[k])],
                   header |-> macros]
    /\ gen_pc' = "done"
    /\ UNCHANGED <<yaml_data, pdr_data_list, c_refs, ref_pos, macros,
                   binary_data, gen_file, gen_rec, gen_skipped, gen_exc>>
    /\ GenOthersUnchanged

GenNext == ProcessRef \/ ProcessReturn \/ OutputEntry \/ OutputWrite
InitGen ==
    GenInit /\ BuildIdle /\ PackIdle /\ StrIdle /\ ArrIdle /\ PairIdle
        /\ ObjIdle
SpecGen == InitGen /\ [][GenNext]_vars

-----------------------------------------------------------------------------
(* Claims about gen_script.py                                               *)

\* The records of all files in file order (each file without its name entry).
RecordEntries ==
    Flatten([f \in 1..Len(pdr_data_list) |-> Tail(pdr_data_list[f])])

HasSchema(e) ==
    HasKey(e, "pdr_type") /\ HasKey(yaml_data, DictItem(e, "pdr_type").tag)
SchemaOf(e) == DictItem(yaml_data, DictItem(e, "pdr_type").tag)

\* generate_output has consumed every entry without raising.
GenFinished == gen_pc \in {"write", "done"}

\* What the code appends for one item of a record.
ItemBytes(item, schema) == generate_binary_data(<<item>>, schema).bytes

\* A struct item encoded leaf by leaf with the types its own schema entry
\* declares.
NestedItemBytes(item, schema) ==
    IF item[2].t = "dict" /\ DictGet(schema, item[1]).t = "dict"
    THEN LET sub == item[2].s
             subtypes == DictGet(schema, item[1]).s
         IN  Flatten([j \in 1..Len(sub) |->
                 gbd_scalar(sub[j][2], DictGet(subtypes, sub[j][1])).bytes])
    ELSE ItemBytes(item, schema)

NestedBlob ==
    Flatten([i \in 1..Len(RecordEntries) |->
        LET e == RecordEntries[i]
        IN  IF ~HasSchema(e) THEN <<>>
            ELSE Flatten([k \in 1..Len(e) |->
                     NestedItemBytes(e[k], SchemaOf(e))])])

\* C22: a nested struct is encoded by encoding its subfields, each with the
\* type the schema declares for it inside the struct, and every leaf
\* contributes its bytes: the bytes generate_output collected are the
\* records' leaf encodings under the struct's own declared types.
C22_NestedLeavesUseDeclaredTypes ==
    GenFinished => binary_data = NestedBlob

\* The encoding of a record with its fields taken in the order of the schema.
SchemaOrderBytes(e, schema) ==
    Flatten([k \in 1..Len(schema) |->
        IF HasKey(e, schema[k][1])
        THEN ItemBytes(<<schema[k][1], DictItem(e, schema[k][1])>>, schema)
        ELSE <<>>])

SchemaOrderBlob ==
    Flatten([i \in 1..Len(RecordEntries) |->
        LET e == RecordEntries[i]
        IN  IF ~HasSchema(e) THEN <<>> ELSE SchemaOrderBytes(e, SchemaOf(e))])

ItemSet(e) == {e[k] : k \in 1..Len(e)}

\* C23: the field bytes come in the order the schema declares the fields,
\* and two records with the same items in a different key order encode to
\* the same bytes.
C23_SchemaOrderFixesLayout ==
    GenFinished =>
        /\ binary_data = SchemaOrderBlob
        /\ \A i, j \in 1..Len(RecordEntries) :
              LET a == RecordEntries[i]
                  b == RecordEntries[j]
              IN  (HasSchema(a) /\ HasSchema(b) /\ ItemSet(a) = ItemSet(b))
                  => generate_binary_data(a, SchemaOf(a))
                         = generate_binary_data(b, SchemaOf(b))

\* C24: generate_output never passes over a record: when it has consumed
\* every entry without failing, every record had a pdr_type with an entry
\* in yaml_data, and only the file-name entries took the `continue`.
C24_NoRecordSkipped ==
    GenFinished =>
        /\ \A i \in 1..Len(RecordEntries) : HasSchema(RecordEntries[i])
        /\ gen_skipped = Len(pdr_data_list)

HandledTypes ==
    GbdIntTypes \cup {"float", "strUTF8", "strUTF16", "strUTF32", "strASCII"}

\* The scalar fields of a record, those inside its structs included; the
\* pdr_type discriminator is not counted.
ScalarLeaves(e) ==
    Flatten([k \in 1..Len(e) |->
        IF e[k][2].t = "dict" THEN e[k][2].s
        ELSE IF e[k][1] = "pdr_type" THEN <<>> ELSE <<e[k]>>])

\* C25: generate_binary_data fails closed: in a record that was encoded
\* without error every scalar field has a declared type the encoder
\* handles and contributes at least one byte.
C25_UnknownTypeFailsClosed ==
    GenFinished =>
        \A i \in 1..Len(RecordEntries) :
            LET e == RecordEntries[i]
                leaves == ScalarLeaves(e)
            IN  HasSchema(e) =>
                    \A k \in 1..Len(leaves) :
                        LET ft == get_value(SchemaOf(e), leaves[k][1])
                        IN  /\ ft.t = "tag" /\ ft.tag \in HandledTypes
                            /\ gbd_scalar(leaves[k][2], ft).bytes # <<>>

\* The IEEE-754 single-precision encoding, little-endian, of a number that
\* single precision represents exactly (at most 24 significant bits).
Float32LE(value) ==
    LET d == Dyadic(value)
        w == BitLen(d.m)
        biased == (w - d.s) + 127
        mantissa == (d.m - Pow2(w)) * Pow2(23 - w)
        sign == IF d.neg THEN 128 ELSE 0
    IN  IF d.m = 0 THEN <<0, 0, 0, sign>>
        ELSE <<mantissa % 256, (mantissa \div 256) % 256,
               (biased % 2) * 128 + (mantissa \div 65536),
               sign + (biased \div 2)>>

IsFloatItem(item, schema) ==
    /\ IsNumber(item[2])
    /\ get_value(schema, item[1]) = PyTag("float")

Float32Blob ==
    Flatten([i \in 1..Len(RecordEntries) |->
        LET e == RecordEntries[i]
        IN  IF ~HasSchema(e) THEN <<>>
            ELSE Flatten([k \in 1..Len(e) |->
                     IF IsFloatItem(e[k], SchemaOf(e))
                     THEN Float32LE(e[k][2])
                     ELSE ItemBytes(e[k], SchemaOf(e))])])

\* C26: a float field contributes exactly the 4 bytes of the little-endian
\* IEEE-754 single-precision representation of its value, whatever the
\* value.
C26_FloatIsFourBytes ==
    GenFinished =>
        /\ binary_data = Float32Blob
        /\ \A i \in 1..Len(RecordEntries) :
              LET e == RecordEntries[i]
              IN  HasSchema(e) =>
                      \A k \in 1..Len(e) :
                          IsFloatItem(e[k], SchemaOf(e))
                              => Len(ItemBytes(e[k], SchemaOf(e))) = 4

\* The records the JSON file of that name holds, <<>> when none is loaded.
RecordsOfFile(name) ==
    LET files == SelectSeq(pdr_data_list, LAMBDA d : FileNameOf(d) = name)
    IN  IF files = <<>> THEN <<>> ELSE Tail(files[1])

\* The macros a reference stands for: those of the record at position index
\* of its file, none when there is no such record.
ReferenceMacros(ref) ==
    IF ~IsDigits(ref.index) THEN <<>>
    ELSE LET idx == ParseDigits(ref.index)
             recs == RecordsOfFile(ref.file)
         IN  IF idx + 1 > Len(recs) THEN <<>>
             ELSE generate_macros(recs[idx + 1], ref.file, idx, ref.field)

\* C30: the macros collected for the references handled so far are those of
\* the record at position index of the named file, a reference without such
\* a record adds none, and no reference makes process_c_files raise.
C30_MacroBoundToIndexedRecord ==
    /\ gen_exc # "IndexError"
    /\ gen_pc # "raised" =>
           macros = Flatten([k \in 1..ref_pos |-> ReferenceMacros(c_refs[k])])

-----------------------------------------------------------------------------
(* The header length field of build_blob_and_index                          *)

\* The position of a field in the schema of record i.
FieldIndex(i, fname) ==
    CHOOSE k \in 1..Len(SchemaAt(i)) : SchemaAt(i)[k][1] = fname

\* C27: in the returned blob the dataLength of every record is derived: the
\* two bytes written for it hold the number of bytes the record occupies
\* after its header (which ends with dataLength), whatever value the input
\* record carries for dataLength.
C27_DataLengthIsDerived ==
    pc = "returned" =>
        \A i \in 1..Len(records) :
            LET header_len == FieldStart(i, FieldIndex(i, "dataLength")) + 2
                rec_bytes == BlobSlice(i)
            IN  DecodeLittleEndian(
                    SubSeq(rec_bytes, header_len - 1, header_len), FALSE)
                    = PyInt(Len(rec_bytes) - header_len)

-----------------------------------------------------------------------------
(* The body of generate_c_array without rangeFieldSupport                   *)

NoRangeField ==
    \A k \in 1..Len(gca_schema.binaryOrder) :
        gca_schema.binaryOrder[k] # "rangeFieldSupport"

\* The entries among the first n of binaryOrder other than pdrHeader.
FieldsBefore(n) ==
    Cardinality({k \in 1..n : gca_schema.binaryOrder[k] # "pdrHeader"})

\* C28: without a rangeFieldSupport field, the while loop takes each
\* binaryOrder entry once (one value per entry other than pdrHeader) and
\* ends; the call on valid data, whatever mix of string and fixed-size
\* fields it holds, returns; and the body returned is the concatenation of
\* the fields' packed bytes in binaryOrder order.
C28_BodyIsFieldConcatenation ==
    NoRangeField =>
        /\ gca_i <= Len(gca_schema.binaryOrder)
        /\ gca_pc = "fields" => Len(data_values) = FieldsBefore(gca_i)
        /\ gca_pc = "pack" =>
              Len(data_values) = FieldsBefore(Len(gca_schema.binaryOrder))
        /\ (FixedFieldsValid /\ StringFieldsValid) => gca_pc # "raised"
        /\ gca_pc = "returned" =>
              SubSeq(ArrayBytes, Len(ArrayBytes) - Len(ExpectedBody) + 1,
                     Len(ArrayBytes)) = ExpectedBody

-----------------------------------------------------------------------------
(* object.py: main                                                          *)

MaxObjects == 2

PLDM_TYPE_MAP ==
    [k \in {"COMPACT_SENSOR", "NUMERIC_SENSOR", "STATE_SENSOR",
            "NUMERIC_EFFECTOR", "STATE_EFFECTOR", "FILE_TRANSFER_SENSOR"} |->
        CASE k = "COMPACT_SENSOR"   -> "PLDM_COMPACT_SENSOR"
          [] k = "NUMERIC_SENSOR"   -> "PLDM_NUMERIC_SENSOR"
          [] k = "STATE_SENSOR"     -> "PLDM_STATE_SENSOR"
          [] k = "NUMERIC_EFFECTOR" -> "PLDM_NUMERIC_EFFECTOR"
          [] k = "STATE_EFFECTOR"   -> "PLDM_STATE_EFFECTOR"
          [] OTHER                  -> "PLDM_FILE_TRANSFER_SENSOR"]

\* An entry of pldm_objects: a mapping with a common_config holding the id
\* given (none when id is None) and the type given (no key when None).
MkObject(id, type_str) ==
    (IF id = PyNone THEN <<>>
     ELSE << <<"common_config", PyDictOf(<< <<"id", id>> >>)>> >>)
    \o (IF type_str = PyNone THEN <<>> ELSE << <<"type", type_str>> >>)

ObjectPool ==
    {MkObject(id, type_str) :
        id \in {PyNone, PyInt(0), PyInt(1), PyInt(2)},
        type_str \in {PyNone, PyTag(""), PyTag("COMPACT_SENSOR"),
                      PyTag("NUMERIC_SENSOR"), PyTag("BOGUS")}}

\* obj.get('common_config', {})
CommonConfig(obj) ==
    IF HasKey(obj, "common_config") THEN DictItem(obj, "common_config").s
    ELSE <<>>

\* common_config.get(key, 0)
ConfigGet(obj, key) ==
    IF HasKey(CommonConfig(obj), key) THEN DictItem(CommonConfig(obj), key)
    ELSE PyInt(0)

\* `if type_str and type_str not in PLDM_TYPE_MAP` (line 45).
TypeRejected(type_str) ==
    /\ type_str # PyNone /\ type_str.tag # ""
    /\ type_str.tag \notin DOMAIN PLDM_TYPE_MAP

\* PLDM_TYPE_MAP.get(obj.get('type', 'COMPACT_SENSOR'), 'PLDM_COMPACT_SENSOR')
TypeEnum(obj) ==
    LET key == IF HasKey(obj, "type") THEN DictItem(obj, "type").tag
               ELSE "COMPACT_SENSOR"
    IN  IF key \in DOMAIN PLDM_TYPE_MAP THEN PLDM_TYPE_MAP[key]
        ELSE "PLDM_COMPACT_SENSOR"

ObjInit ==
    /\ objects \in SeqsUpTo(ObjectPool, MaxObjects)
    /\ obj_pos = 0 /\ ids = {} /\ obj_pc = "start"
    /\ obj_exit = <<>> /\ output_c = [exists |-> FALSE, lines |-> <<>>]

ObjOthersUnchanged ==
    UNCHANGED <<buildVars, packVars, strVars, arrVars, pairVars, genVars>>

\* Lines 33-38: leave when there is no object, else start validating.
ObjStart ==
    /\ obj_pc = "start"
    /\ IF objects = <<>>
       THEN /\ obj_pc' = "exited"
            /\ obj_exit' = <<"No pldm_objects defined in YAML">>
       ELSE /\ obj_pc' = "validate"
            /\ obj_exit' = obj_exit
    /\ ids' = {}
    /\ UNCHANGED <<objects, obj_pos, output_c>>
    /\ ObjOthersUnchanged

\* One iteration of the validation loop (lines 39-46).
ObjValidate ==
    /\ obj_pc = "validate" /\ obj_pos < Len(objects)
    /\ LET obj == objects[obj_pos + 1]
           obj_id == ConfigGet(obj, "id")
           type_str == DictGet(obj, "type")
       IN  IF obj_id \in ids
           THEN /\ obj_pc' = "exited"
                /\ obj_exit' = <<"Duplicate id: ", PyStrOf(obj_id)>>
                /\ UNCHANGED <<ids, obj_pos>>
           ELSE /\ ids' = ids \cup {obj_id}
                /\ IF TypeRejected(type_str)
                   THEN /\ obj_pc' = "exited"
                        /\ obj_exit' = <<"Invalid type ", type_str.tag>>
                        /\ obj_pos' = obj_pos
                   ELSE /\ obj_pc' = "validate"
                        /\ obj_exit' = obj_exit
                        /\ obj_pos' = obj_pos + 1
    /\ UNCHANGED <<objects, output_c>>
    /\ ObjOthersUnchanged

\* The loop is over: open(output_c, 'w') and the two heading lines
\* (lines 48-50).
ObjOpen ==
    /\ obj_pc = "validate" /\ obj_pos = Len(objects)
    /\ output_c' = [exists |-> TRUE,
                    lines |-> << <<"#include \"pldm_objects.h\"">>,
                                 <<"const PldmObject pldm_objects[] = {">> >>]
    /\ obj_pc' = "write"
    /\ obj_pos' = 0
    /\ UNCHANGED <<objects, ids, obj_exit>>
    /\ ObjOthersUnchanged

\* The writing loop for the first object (lines 51-67): seven lines are
\* written, then line 67 evaluates the name `false`, which is not defined,
\* and the NameError leaves the with block, which closes the file.
ObjWrite ==
    /\ obj_pc = "write"
    /\ LET obj == objects[obj_pos + 1]
       IN  output_c' =
               [output_c EXCEPT !.lines = @ \o
                   << <<"{">>,
                      <<".type = ", TypeEnum(obj)>>,
                      <<".common_config = {">>,
                      <<".id = ", PyStrOf(ConfigGet(obj, "id"))>>,
                      <<".entity_type = ",
                        PyStrOf(ConfigGet(obj, "entity_type"))>>,
                      <<".entity_instance = ",
                        PyStrOf(ConfigGet(obj, "entity_instance"))>>,
                      <<".container_id = ",
                        PyStrOf(ConfigGet(obj, "container_id"))>> >>]
    /\ obj_pc' = "raised"
    /\ UNCHANGED <<objects, obj_pos, ids, obj_exit>>
    /\ ObjOthersUnchanged

ObjNext == ObjStart \/ ObjValidate \/ ObjOpen \/ ObjWrite
InitObj ==
    ObjInit /\ BuildIdle /\ PackIdle /\ StrIdle /\ ArrIdle /\ PairIdle
        /\ GenIdle
SpecObj == InitObj /\ [][ObjNext]_vars

\* Two objects of the list have the same id, an object without one counting
\* as id 0.
HasDuplicateId ==
    \E i, j \in 1..Len(objects) :
        i # j /\ ConfigGet(objects[i], "id") = ConfigGet(objects[j], "id")

\* An object has a type string that is not a key of PLDM_TYPE_MAP.
HasInvalidType ==
    \E i \in 1..Len(objects) :
        /\ HasKey(objects[i], "type")
        /\ DictItem(objects[i], "type").tag \notin DOMAIN PLDM_TYPE_MAP

\* C29: main validates every object before it writes: with a duplicate id
\* or an invalid type string it exits with a message and never opens the
\* output file, and the file exists only when all ids are distinct and all
\* given types are keys of PLDM_TYPE_MAP.
C29_ValidatedBeforeWritten ==
    /\ (HasDuplicateId \/ HasInvalidType) =>
          /\ ~output_c.exists
          /\ obj_pc \notin {"write", "raised"}
          /\ (obj_pc = "validate" => obj_pos < Len(objects))
    /\ obj_pc = "exited" => (obj_exit # <<>> /\ ~output_c.exists)
    /\ output_c.exists => (~HasDuplicateId /\ ~HasInvalidType)

====
